---- MODULE Spec2Model ----
(***************************************************************************)
(* A model of the multi-phase analysis pipeline: the orchestrator          *)
(* (AnalysisPipeline.run), Phase 2 (planning and agent parsing), Phase 3   *)
(* (concurrent agent analysis on the asyncio event loop), the OpenAI       *)
(* architect's analyze operation, and the pure functions of the provider   *)
(* adapters: the OpenAI and xAI prepare_request, parse_response and        *)
(* ToolManager.get_provider_tools.                                         *)
(***************************************************************************)
EXTENDS Integers, Sequences, FiniteSets, TLC

\* ------------------------------------------------------------------ bounds

\* The largest number of agent definitions a parsed plan holds.
MaxAgents == 2

\* ------------------------------------------------------------ basic values

\* Python's None, and a result variable that has not been assigned yet.
None == [unset |-> TRUE]

\* The await statements of AnalysisPipeline.run, in program order, followed by
\* the construction of the PipelineResult.
Steps ==
    <<"run_phase1", "run_phase2", "run_phase3", "run_phase4", "run_phase5",
      "run_final", "return">>

PhaseSteps == {Steps[i] : i \in 1..6}

StepIndex(step) == CHOOSE i \in 1..Len(Steps) : Steps[i] = step

AfterSkipping(step) ==
    IF StepIndex(step) + 2 <= Len(Steps) THEN Steps[StepIndex(step) + 2] ELSE "return"

\* The statement that follows an await of run: the next phase, in the order
\* the source writes them.
After(step) == Steps[StepIndex(step) + 1]

\* ------------------------------------------------------- agent definitions

AgentIds == <<"agent_1", "agent_2", "agent_3", "agent_4">>

AgentNames == <<"Alpha", "Beta", "Gamma", "Delta">>

\* File names and the words of a tree line are sequences of characters, so
\* that the substring test of Phase 3 is computed and not looked up.
APy == <<"a", ".", "p", "y">>

FileLists == {<< >>, <<APy>>}

\* What the plan parser can produce at position k of its list: a definition
\* with the id agent_k, one with an id that holds no underscore, and one with
\* no id at all.
ParsedAgents(k) ==
    {[id |-> AgentIds[k], name |-> AgentNames[k], description |-> "role",
      file_assignments |-> f] : f \in FileLists}
    \cup {[id |-> "solo", name |-> AgentNames[k], description |-> "role",
           file_assignments |-> <<APy>>]}
    \cup {[name |-> AgentNames[k], description |-> "role",
           file_assignments |-> <<APy>>]}

AllParsedAgents == UNION {ParsedAgents(k) : k \in 1..MaxAgents}

AgentLists ==
    UNION {{l \in [1..n -> AllParsedAgents] : \A k \in 1..n : l[k] \in ParsedAgents(k)}
           : n \in 0..MaxAgents}

\* ------------------------------------------------------------ project tree

\* The connector the tree generator draws in front of an entry.
Branch == <<"|", "-", "-">>

\* A tree line is the sequence of words that stripping it and splitting it on
\* spaces yields. The second tree lists the directory src, the files m.py,
\* R.md, a.json and the file whose name is the two words my n.ts.
Trees ==
    {<< >>,
     << <<Branch, <<"s", "r", "c">> >>,
        <<Branch, <<"m", ".", "p", "y">> >>,
        <<Branch, <<"R", ".", "m", "d">> >>,
        <<Branch, <<"a", ".", "j", "s", "o", "n">> >>,
        <<Branch, <<"m", "y">>, <<"n", ".", "t", "s">> >> >>}

\* The extensions Phase 3 looks for: .py, .js, .ts, .jsx, .tsx
SourceExts ==
    {<<".", "p", "y">>, <<".", "j", "s">>, <<".", "t", "s">>,
     <<".", "j", "s", "x">>, <<".", "t", "s", "x">>}

\* Python's `sub in text` on strings.
Contains(text, sub) ==
    \E p \in 1..(Len(text) - Len(sub) + 1) : SubSeq(text, p, p + Len(sub) - 1) = sub

\* The test of line 107 on a line: a substring test, and since no extension
\* holds a space, a test on each word of the line.
ContainsSourceExt(line) ==
    \E w \in 1..Len(line) : \E ext \in SourceExts : Contains(line[w], ext)

RECURSIVE FallbackFiles(_)
\* Phase3Analysis.run: the blanket assignment of the fallback agents, the last
\* word of every line that passes the test.
FallbackFiles(lines) ==
    IF lines = << >> THEN << >>
    ELSE LET line == Head(lines)
             rest == FallbackFiles(Tail(lines))
         IN IF ContainsSourceExt(line)
            THEN <<line[Len(line)]>> \o rest
            ELSE rest

\* ---------------------------------------------------------------- state

VARIABLES
    pc,                  \* the statement of AnalysisPipeline.run that runs next
    awaiting,            \* the current phase's run is suspended on its await
    tree,                \* snapshot.tree
    phase1_results, phase2_results, phase3_results, phase4_results,
    consolidated_report, final_analysis,       \* the locals of run
    pipeline_result,     \* the PipelineResult run returns
    received,            \* what each phase's run was called with
    calls,               \* the phase runs started and returned, in order
    events,              \* the events the sink has received, in order
    architects,          \* Phase3Analysis.architects (the agent definitions)
    analysis_tasks,      \* the tasks asyncio.gather runs, in creation order
    parser_log           \* what Phase 2 got from the architect and the parsers it called

pipeline_vars ==
    <<pc, awaiting, tree, phase1_results, phase2_results, phase3_results,
      phase4_results, consolidated_report, final_analysis, pipeline_result,
      received, calls, events, architects, analysis_tasks, parser_log>>

VARIABLES
    architect,           \* the OpenAIArchitect: name, tools_config, API, template
    call,                \* the operation called on it and its arguments
    frame,               \* where the operation is, and its locals
    dispatched,          \* the prepared requests handed to execute_request
    analysis             \* how the operation ended: its result, or a raise

architect_vars == <<architect, call, frame, dispatched, analysis>>

VARIABLES
    request,             \* the keyword arguments of a prepare_request call
    prepared,            \* how that call ended: its PreparedRequest, or a raise
    sdk_response,        \* the SDK response handed to parse_response, and its API
    parsed,              \* how parse_response ended: its ParsedResponse, or a raise
    conversion,          \* the arguments of a ToolManager.get_provider_tools call
    provider_tools       \* how that call ended: the provider's tool list, or a raise

adapter_vars == <<request, prepared, sdk_response, parsed, conversion, provider_tools>>

VARIABLES
    factory_module,      \* the functions the names of the factory module are bound to
    phase_modules,       \* the functions the names of each phase module are bound to
    reexport,            \* how the agents package hands out the factory functions
    obtained,            \* the architects the phase units have obtained, in order
    runner               \* where run_pipeline is, its arguments and what it has done

runner_vars == <<factory_module, phase_modules, reexport, obtained, runner>>

VARIABLES
    reading,             \* the arguments of a _get_file_contents call and the disk
    file_contents        \* how that call ended: the mapping it returned

files_vars == <<reading, file_contents>>

vars == <<pipeline_vars, architect_vars, adapter_vars, runner_vars, files_vars>>

\* Python's d[key] = val on a copy of the mapping d.
With(d, key, val) == [k \in DOMAIN d \cup {key} |-> IF k = key THEN val ELSE d[k]]

RECURSIVE Join(_, _)
\* Python's sep.join(parts) on strings held as sequences of characters.
Join(sep, parts) ==
    IF parts = << >> THEN << >>
    ELSE IF Len(parts) = 1 THEN parts[1]
    ELSE parts[1] \o sep \o Join(sep, Tail(parts))

\* dict.get(key, default)
Get(d, key, default) == IF key \in DOMAIN d THEN d[key] ELSE default

Returns(value) == [kind |-> "return", value |-> value]

Raises == [kind |-> "raise"]

\* A collaborator the run did not call.
NotCalled == [kind |-> "not called"]

\* --------------------------------------------------------- the orchestrator

RunInputStale(step) ==
    CASE step = "run_phase1" -> [tree |-> tree]
      [] step = "run_phase2" -> [phase1_results |-> phase1_results, tree |-> tree]
      [] step = "run_phase3" -> [analysis_plan |-> phase2_results, tree |-> tree]
      [] step = "run_phase4" -> [phase3_results |-> phase3_results]
      [] step = "run_phase5" ->
            [all_results |-> [phase1 |-> phase1_results, phase2 |-> phase2_results,
                              phase3 |-> phase3_results, phase4 |-> phase3_results]]
      [] step = "run_final" -> [consolidated_report |-> consolidated_report, tree |-> tree]

\* The arguments run hands to each run_phaseN, which passes them on to the
\* phase unit's run.
RunInput(step) ==
    CASE step = "run_phase1" -> [tree |-> tree]
      [] step = "run_phase2" -> [phase1_results |-> phase1_results, tree |-> tree]
      [] step = "run_phase3" -> [analysis_plan |-> phase2_results, tree |-> tree]
      [] step = "run_phase4" -> [phase3_results |-> phase3_results]
      [] step = "run_phase5" ->
            [all_results |-> [phase1 |-> phase1_results, phase2 |-> phase2_results,
                              phase3 |-> phase3_results, phase4 |-> phase4_results]]
      [] step = "run_final" -> [consolidated_report |-> consolidated_report, tree |-> tree]

\* phaseN_results = await self.run_phaseN(...): the local that step assigns.
Assign(step, value) ==
    /\ phase1_results' = IF step = "run_phase1" THEN value ELSE phase1_results
    /\ phase2_results' = IF step = "run_phase2" THEN value ELSE phase2_results
    /\ phase3_results' = IF step = "run_phase3" THEN value ELSE phase3_results
    /\ phase4_results' = IF step = "run_phase4" THEN value ELSE phase4_results
    /\ consolidated_report' = IF step = "run_phase5" THEN value ELSE consolidated_report
    /\ final_analysis' = IF step = "run_final" THEN value ELSE final_analysis

UnchangedResults ==
    UNCHANGED <<phase1_results, phase2_results, phase3_results, phase4_results,
                consolidated_report, final_analysis>>

\* run calls a phase: the phase unit's run starts with the arguments of RunInput.
Started(step, log) == Append(log, [op |-> "start", phase |-> step])

\* A phase's run ends with `outcome`: run has no handler of its own, so a raise
\* leaves run, and a returned mapping is copied into the step's local.
Complete(step, outcome, log) ==
    /\ awaiting' = FALSE
    /\ IF outcome.kind = "raise"
       THEN /\ pc' = "raised"
            /\ calls' = Append(log, [op |-> "raise", phase |-> step])
            /\ UnchangedResults
       ELSE /\ pc' = After(step)
            /\ calls' = Append(log, [op |-> "return", phase |-> step])
            /\ Assign(step, outcome.value)

\* Optional values: Python's None, and a value that is there.
Nothing == << >>

Some(x) == <<x>>

\* Python's truth test of an optional list: neither None nor empty.
Truthy(opt) == opt # Nothing /\ opt[1] # << >>

NoFrame == [pc |-> "idle"]

\* No architect operation is under way.
ArchitectIdle ==
    /\ architect = [name |-> Nothing]
    /\ call = [op |-> "none"]
    /\ frame = NoFrame
    /\ dispatched = << >>
    /\ analysis = NotCalled

PipelineInit ==
    /\ pc = "run_phase1"
    /\ awaiting = FALSE
    /\ tree \in Trees
    /\ phase1_results = None /\ phase2_results = None /\ phase3_results = None
    /\ phase4_results = None /\ consolidated_report = None /\ final_analysis = None
    /\ pipeline_result = None
    /\ received = [s \in PhaseSteps |-> None]
    /\ calls = << >>
    /\ events = << >>
    /\ architects = << >>
    /\ analysis_tasks = << >>
    /\ parser_log = [planned |-> NotCalled, primary |-> NotCalled, fallback |-> NotCalled]

\* No provider-adapter function has been called.
AdapterIdle ==
    /\ request = NotCalled /\ prepared = NotCalled
    /\ sdk_response = NotCalled /\ parsed = NotCalled
    /\ conversion = NotCalled /\ provider_tools = NotCalled

\* The pipeline has not been started.
PipelineIdle == PipelineInit /\ tree = << >>

\* _get_file_contents has not been called.
FilesIdle == reading = NotCalled /\ file_contents = NotCalled

\* get_architect_for_phase, get_researcher_architect
FactoryFunctions == {"get_architect_for_phase", "get_researcher_architect"}

\* The modules of the phase units that import the factory functions by name.
PhaseModules == {"phase_1", "phase_2", "phase_3"}

\* from core.agents import get_architect_for_phase, and in phase 1 the
\* researcher as well.
ImportedNames(module) ==
    IF module = "phase_1" THEN FactoryFunctions ELSE {"get_architect_for_phase"}

\* A phase module that was not imported yet binds no name.
Unimported == [fn \in FactoryFunctions |-> "unbound"]

\* run_pipeline was not called, and the factory is the real one.
RunnerIdle ==
    /\ factory_module = [fn \in FactoryFunctions |-> "real"]
    /\ phase_modules = [m \in PhaseModules |-> Unimported]
    /\ reexport = "copied"
    /\ obtained = << >>
    /\ runner = [pc |-> "idle"]

Init == PipelineInit /\ ArchitectIdle /\ AdapterIdle /\ RunnerIdle /\ FilesIdle

\* ------------------------------------- phases 1, 4, 5 and the final report

\* The label each of these phase units stamps on its output.
PhaseLabel(step) ==
    CASE step = "run_phase1" -> "Initial Discovery"
      [] step = "run_phase4" -> "Synthesis"
      [] step = "run_phase5" -> "Consolidation"
      [] step = "run_final" -> "Final Analysis"

\* What the run of Phase 1, 4, 5 or Final ends with: its normal output, or the
\* error payload of its phase boundary.
PhaseOutcomes(step) ==
    {Returns([phase |-> PhaseLabel(step), output |-> "text"]),
     Returns([phase |-> PhaseLabel(step), error |-> "phase failed"])}

SimplePhases == {"run_phase1", "run_phase4", "run_phase5", "run_final"}

\* run_phase1, run_phase4, run_phase5, run_final: the phase's run is called and
\* suspends on its single architect call.
PhaseStart(step) ==
    /\ step \in SimplePhases
    /\ pc = step /\ ~awaiting
    /\ awaiting' = TRUE
    /\ received' = [received EXCEPT ![step] = RunInput(step)]
    /\ calls' = Started(step, calls)
    /\ UnchangedResults
    /\ UNCHANGED <<pc, tree, pipeline_result, events, architects, analysis_tasks,
                   parser_log>>
    /\ UNCHANGED <<architect_vars, adapter_vars, runner_vars, files_vars>>

\* The architect call of the phase completes and the phase's run returns.
PhaseReturn(step) ==
    /\ step \in SimplePhases
    /\ pc = step /\ awaiting
    /\ \E outcome \in PhaseOutcomes(step) : Complete(step, outcome, calls)
    /\ UNCHANGED <<tree, pipeline_result, received, events, architects,
                   analysis_tasks, parser_log>>
    /\ UNCHANGED <<architect_vars, adapter_vars, runner_vars, files_vars>>

\* ------------------------------------------------------------------ Phase 2

\* What the architect's create_analysis_plan ends with: a plan, an error
\* mapping (str(exc) of the failure, which is empty for an exception without
\* a message), or, for an architect that does not catch, a raise.
PlanOutcomes ==
    {Returns([plan |-> "plan text"]),
     Returns([error |-> "dispatch failed"]),
     Returns([error |-> ""]),
     Raises}

\* What parse_agents_from_phase2 and extract_agent_fallback end with on the
\* plan text: a response without a plan has the empty text, which holds no agent.
ParserOutcomes(response) ==
    IF "plan" \in DOMAIN response
    THEN {Returns(l) : l \in AgentLists} \cup {Raises}
    ELSE {Returns(<< >>), Raises}

\* One entry of the agent_plan payload.
Summary(agent, idx) ==
    LET agent_id == IF "id" \in DOMAIN agent THEN agent.id ELSE AgentIds[idx]
    IN [id |-> agent_id,
        name |-> agent.name,
        description |-> agent.description,
        files |-> agent.file_assignments]

\* Phase2Analysis._publish_agent_plan: the event it publishes.
AgentPlanEvent(agents) ==
    [phase |-> "phase2", type |-> "agent_plan",
     payload |-> [agents |-> [i \in 1..Len(agents) |-> Summary(agents[i], i)]]]

NoErrorCheck(response) == FALSE

\* `"error" in analysis_plan_response and analysis_plan_response["error"]`
HasError(response) == "error" \in DOMAIN response /\ response.error # ""

FallbackPublishedNoPlan(agents) == << >>

\* The events of the fallback branch once extract_agent_fallback found agents.
FallbackPublished(agents) == <<AgentPlanEvent(agents)>>

FallbackRaisedUncaught(response) == Returns([error |-> "phase 2 failed"])

\* extract_agent_fallback raised: the inner except clause logs it and run goes
\* on with the agents of the primary parser, which are none.
FallbackRaised(response) == Returns(With(response, "agents", << >>))

\* Phase2Analysis.run after the architect call: the outcome of run, the events
\* it publishes and what each parser it called gave it.
Phase2Run(planned, primary, fallback) ==
    LET caught == [outcome |-> Returns([error |-> "phase 2 failed"]),
                   published |-> << >>, primary |-> NotCalled, fallback |-> NotCalled]
    IN IF planned.kind = "raise" THEN caught
       ELSE IF HasError(planned.value)
       THEN [caught EXCEPT !.outcome = Returns(planned.value)]
       ELSE IF primary.kind = "raise" THEN [caught EXCEPT !.primary = primary]
       ELSE IF primary.value # << >>
       THEN [outcome |-> Returns(With(planned.value, "agents", primary.value)),
             published |-> <<AgentPlanEvent(primary.value)>>,
             primary |-> primary, fallback |-> NotCalled]
       ELSE IF fallback.kind = "return" /\ fallback.value # << >>
       THEN [outcome |-> Returns(With(planned.value, "agents", fallback.value)),
             published |-> FallbackPublished(fallback.value),
             primary |-> primary, fallback |-> fallback]
       ELSE IF fallback.kind = "raise"
       THEN [outcome |-> FallbackRaised(planned.value),
             published |-> << >>, primary |-> primary, fallback |-> fallback]
       ELSE [outcome |-> Returns(With(planned.value, "agents", << >>)),
             published |-> << >>, primary |-> primary, fallback |-> fallback]

\* run_phase2: Phase2Analysis.run formats the prompt and suspends on
\* create_analysis_plan.
Phase2Start ==
    /\ pc = "run_phase2" /\ ~awaiting
    /\ awaiting' = TRUE
    /\ received' = [received EXCEPT !["run_phase2"] = RunInput("run_phase2")]
    /\ calls' = Started("run_phase2", calls)
    /\ UnchangedResults
    /\ UNCHANGED <<pc, tree, pipeline_result, events, architects, analysis_tasks,
                   parser_log>>
    /\ UNCHANGED <<architect_vars, adapter_vars, runner_vars, files_vars>>

\* create_analysis_plan completes; Phase2Analysis.run parses, publishes and returns.
Phase2Return ==
    /\ pc = "run_phase2" /\ awaiting
    /\ \E planned \in PlanOutcomes :
       \E primary, fallback \in
              ParserOutcomes(IF planned.kind = "return" THEN planned.value ELSE None) :
         LET ran == Phase2Run(planned, primary, fallback)
         IN /\ Complete("run_phase2", ran.outcome, calls)
            /\ events' = events \o ran.published
            /\ parser_log' = [planned |-> planned, primary |-> ran.primary,
                              fallback |-> ran.fallback]
    /\ UNCHANGED <<tree, pipeline_result, received, architects, analysis_tasks>>
    /\ UNCHANGED <<architect_vars, adapter_vars, runner_vars, files_vars>>

\* ------------------------------------------------------------------ Phase 3

\* The fallback agents of Phase3Analysis.run, before their files are assigned.
FallbackAgents ==
    <<[id |-> "agent_1", name |-> "Code Analysis Agent",
       description |-> "Analyzes code quality, patterns, and implementation details",
       file_assignments |-> << >>],
      [id |-> "agent_2", name |-> "Dependency Mapping Agent",
       description |-> "Maps dependencies between files and modules",
       file_assignments |-> << >>],
      [id |-> "agent_3", name |-> "Architecture Agent",
       description |-> "Analyzes overall architecture and design patterns",
       file_assignments |-> << >>]>>

\* analysis_plan.get("agents", []), replaced by the fallback agents, each with
\* every source file of the tree, when it is empty.
AgentDefinitions(analysis_plan, lines) ==
    LET given == IF "agents" \in DOMAIN analysis_plan THEN analysis_plan.agents ELSE << >>
    IN IF given # << >> THEN given
       ELSE [i \in 1..Len(FallbackAgents) |->
                [FallbackAgents[i] EXCEPT !.file_assignments = FallbackFiles(lines)]]

\* agent_def["id"].split("_")[1] raises KeyError without an id and IndexError
\* for an id that holds no underscore.
IdSplits(agent) ==
    "id" \in DOMAIN agent /\ agent.id \in {AgentIds[k] : k \in DOMAIN AgentIds}

\* The definitions the registration loop gets through before it raises.
Registered(defs) ==
    IF \A k \in 1..Len(defs) : IdSplits(defs[k]) THEN defs
    ELSE SubSeq(defs, 1, (CHOOSE k \in 1..Len(defs) :
                            /\ ~IdSplits(defs[k])
                            /\ \A j \in 1..(k - 1) : IdSplits(defs[j])) - 1)

\* Phase3Analysis._publish_agent_event: payload.update(extra) on id, name, description.
AgentEvent(type, agent, extra) ==
    LET base == [id |-> IF "id" \in DOMAIN agent THEN agent.id ELSE agent.name,
                 name |-> agent.name,
                 description |-> agent.description]
    IN [phase |-> "phase3", type |-> type,
        payload |-> [k \in DOMAIN base \cup DOMAIN extra |->
                        IF k \in DOMAIN extra THEN extra[k] ELSE base[k]]]

RegisteredEventsLastFirst(defs) ==
    [i \in 1..Len(defs) |->
        AgentEvent("agent_registered", defs[Len(defs) + 1 - i],
                   [file_count |-> Len(defs[Len(defs) + 1 - i].file_assignments)])]

\* The agent_registered events of the registration loop, one per definition.
RegisteredEvents(defs) ==
    [i \in 1..Len(defs) |->
        AgentEvent("agent_registered", defs[i],
                   [file_count |-> Len(defs[i].file_assignments)])]

HasFilesOrNot(agent) == TRUE

\* The loop that builds analysis_tasks skips an agent without assigned files.
HasFiles(agent) == agent.file_assignments # << >>

NewTask(agent) ==
    [agent |-> agent, state |-> "ready", suspended |-> FALSE, started |-> 0,
     analyze |-> "pending", result |-> None]

\* time.perf_counter(): a clock that never runs backwards, here the number of
\* events published so far.
PerfCounter(published) == Len(published)

Phase3Reraise(message) == Raises

\* The except clause of Phase3Analysis.run.
Phase3OnException(message) == Returns([phase |-> "Deep Analysis", error |-> message])

\* What architect.analyze ends with: a result mapping (findings, or the error
\* mapping of an architect that catches its own failures), or a raise.
AnalyzeOutcomes(agent) ==
    {Returns([agent |-> agent.name, findings |-> "report"]),
     Returns([agent |-> agent.name, error |-> "dispatch failed"]),
     Raises}

Unfinished(task) == task.state \in {"ready", "suspended"}

\* The state of gather's outer future: it takes the first exception of a child
\* as soon as that child fails, and the list of results once every child is done.
GatherSettled(tasks) ==
    \/ \E i \in 1..Len(tasks) : tasks[i].state = "failed"
    \/ \A i \in 1..Len(tasks) : tasks[i].state = "done"

RunnableOneByOne(tasks, i) ==
    IF tasks[i].state = "ready"
    THEN \A j \in 1..(i - 1) : ~Unfinished(tasks[j])
    ELSE tasks[i].state = "suspended"

\* The loop's ready queue is first-in first-out: gather queues the first step of
\* every task in creation order, and the wake-up of a suspended task is queued
\* behind the first steps that are still waiting.
Runnable(tasks, i) ==
    IF tasks[i].state = "ready"
    THEN \A j \in 1..(i - 1) : tasks[j].state # "ready"
    ELSE /\ tasks[i].state = "suspended"
         /\ \A j \in 1..Len(tasks) : tasks[j].state # "ready"

\* The main coroutine is suspended (or has finished), so the loop runs tasks.
EventLoopFree == awaiting \/ pc = "returned"

\* run_phase3: Phase3Analysis.run up to its await of asyncio.gather. It picks
\* the agent definitions, registers one architect per definition, creates one
\* task per agent that has files and suspends; it returns at once when the
\* registration raises or when there is no task to wait for.
Phase3Start ==
    /\ pc = "run_phase3" /\ ~awaiting
    /\ LET input == RunInput("run_phase3")
           defs == AgentDefinitions(input.analysis_plan, input.tree)
           registered == Registered(defs)
           runnable == SelectSeq(registered, HasFiles)
           log == Started("run_phase3", calls)
       IN /\ received' = [received EXCEPT !["run_phase3"] = input]
          /\ architects' = registered
          /\ events' = events \o RegisteredEvents(registered)
          /\ IF Len(registered) < Len(defs)
             THEN /\ analysis_tasks' = << >>
                  /\ Complete("run_phase3", Phase3OnException("agent id"), log)
             ELSE IF runnable = << >>
             THEN /\ analysis_tasks' = << >>
                  /\ Complete("run_phase3",
                              Returns([phase |-> "Deep Analysis", findings |-> << >>]), log)
             ELSE /\ analysis_tasks' = [i \in 1..Len(runnable) |-> NewTask(runnable[i])]
                  /\ awaiting' = TRUE
                  /\ calls' = log
                  /\ UnchangedResults
                  /\ UNCHANGED pc
    /\ UNCHANGED <<tree, pipeline_result, parser_log>>
    /\ UNCHANGED <<architect_vars, adapter_vars, runner_vars, files_vars>>

FailedOrErrorResult(outcome) ==
    outcome.kind = "raise" \/ "error" \in DOMAIN outcome.value

\* except Exception around await architect.analyze(context): only a raise gets
\* there, a returned mapping never does, whatever it holds.
Failed(outcome) == outcome.kind = "raise"

FailedExtraWithoutDuration(files, message, duration) ==
    [files |-> files, error |-> message]

\* extra={"files": files, "error": str(error), "duration": duration}
FailedExtra(files, message, duration) ==
    [files |-> files, error |-> message, duration |-> duration]

\* extra={"files": files, "duration": duration}
CompletedExtra(files, duration) == [files |-> files, duration |-> duration]

\* Phase3Analysis._execute_agent after architect.analyze ended with `outcome`:
\* the terminal event, and the task's result or exception. `started` is the
\* clock reading taken before the call.
Finish(i, outcome, published, started) ==
    LET agent == analysis_tasks[i].agent
        files == agent.file_assignments
        duration == PerfCounter(published) - started
    IN IF Failed(outcome)
       THEN /\ events' = Append(published,
                    AgentEvent("agent_failed", agent,
                               FailedExtra(files, "analyze raised", duration)))
            /\ analysis_tasks' = [analysis_tasks EXCEPT ![i].state = "failed",
                                                        ![i].analyze = outcome.kind,
                                                        ![i].started = started]
       ELSE /\ events' = Append(published,
                    AgentEvent("agent_completed", agent, CompletedExtra(files, duration)))
            /\ analysis_tasks' = [analysis_tasks EXCEPT ![i].state = "done",
                                                        ![i].analyze = outcome.kind,
                                                        ![i].started = started,
                                                        ![i].result = outcome.value]

\* The first step of a task: _execute_agent publishes agent_started and calls
\* architect.analyze, which suspends on its provider call or ends at once.
TaskStart(i) ==
    /\ EventLoopFree
    /\ analysis_tasks[i].state = "ready"
    /\ Runnable(analysis_tasks, i)
    /\ LET agent == analysis_tasks[i].agent
           published == Append(events, AgentEvent("agent_started", agent,
                                                  [files |-> agent.file_assignments]))
       IN \/ /\ events' = published
             /\ analysis_tasks' = [analysis_tasks EXCEPT
                                       ![i].state = "suspended",
                                       ![i].suspended = TRUE,
                                       ![i].started = PerfCounter(published)]
          \/ \E outcome \in AnalyzeOutcomes(agent) :
                Finish(i, outcome, published, PerfCounter(published))
    /\ UnchangedResults
    /\ UNCHANGED <<pc, awaiting, tree, pipeline_result, received, calls, architects,
                   parser_log>>
    /\ UNCHANGED <<architect_vars, adapter_vars, runner_vars, files_vars>>

\* The provider call of a suspended task completes and the loop resumes the task.
TaskResume(i) ==
    /\ EventLoopFree
    /\ analysis_tasks[i].state = "suspended"
    /\ Runnable(analysis_tasks, i)
    /\ \E outcome \in AnalyzeOutcomes(analysis_tasks[i].agent) :
          Finish(i, outcome, events, analysis_tasks[i].started)
    /\ UnchangedResults
    /\ UNCHANGED <<pc, awaiting, tree, pipeline_result, received, calls, architects,
                   parser_log>>
    /\ UNCHANGED <<architect_vars, adapter_vars, runner_vars, files_vars>>

\* results = await asyncio.gather(*analysis_tasks) resumes Phase3Analysis.run:
\* with the list of results, or with the exception of a failed task, which the
\* except clause of run turns into the error payload.
Phase3Join ==
    /\ pc = "run_phase3" /\ awaiting
    /\ \A i \in 1..Len(analysis_tasks) : analysis_tasks[i].state # "ready"
    /\ GatherSettled(analysis_tasks)
    /\ LET failed == \E i \in 1..Len(analysis_tasks) : analysis_tasks[i].state = "failed"
           results == [i \in 1..Len(analysis_tasks) |-> analysis_tasks[i].result]
           outcome == IF failed THEN Phase3OnException("analyze raised")
                      ELSE Returns([phase |-> "Deep Analysis", findings |-> results])
       IN Complete("run_phase3", outcome, calls)
    /\ UNCHANGED <<tree, pipeline_result, received, events, architects, analysis_tasks,
                   parser_log>>
    /\ UNCHANGED <<architect_vars, adapter_vars, runner_vars, files_vars>>

\* ------------------------------------------------- the end of the pipeline

\* PipelineResult(...): the bundle run returns.
BuildResult ==
    [phase1 |-> phase1_results, phase2 |-> phase2_results, phase3 |-> phase3_results,
     phase4 |-> phase4_results, consolidated_report |-> consolidated_report,
     final_analysis |-> final_analysis,
     metrics |-> [elapsed_seconds |-> Len(calls)]]

PipelineReturn ==
    /\ pc = "return"
    /\ pipeline_result' = BuildResult
    /\ pc' = "returned"
    /\ UnchangedResults
    /\ UNCHANGED <<awaiting, tree, received, calls, events, architects, analysis_tasks,
                   parser_log>>
    /\ UNCHANGED <<architect_vars, adapter_vars, runner_vars, files_vars>>

\* asyncio.run (or loop.close) ends the loop once the main coroutine is over:
\* a task that is still pending is cancelled and never resumes.
LoopClose ==
    /\ pc \in {"returned", "raised"}
    /\ pc' = "closed"
    /\ analysis_tasks' =
           [i \in 1..Len(analysis_tasks) |->
               IF Unfinished(analysis_tasks[i])
               THEN [analysis_tasks[i] EXCEPT !.state = "cancelled"]
               ELSE analysis_tasks[i]]
    /\ UnchangedResults
    /\ UNCHANGED <<awaiting, tree, pipeline_result, received, calls, events, architects,
                   parser_log>>
    /\ UNCHANGED <<architect_vars, adapter_vars, runner_vars, files_vars>>

Next ==
    \/ \E step \in SimplePhases : PhaseStart(step)
    \/ \E step \in SimplePhases : PhaseReturn(step)
    \/ Phase2Start
    \/ Phase2Return
    \/ Phase3Start
    \/ \E i \in 1..Len(analysis_tasks) : TaskStart(i)
    \/ \E i \in 1..Len(analysis_tasks) : TaskResume(i)
    \/ Phase3Join
    \/ PipelineReturn
    \/ LoopClose

Spec == Init /\ [][Next]_vars

\* ------------------------------------------------------------- properties

Finished == pc \in {"returned", "closed"}

ExpectedCalls ==
    [i \in 1..12 |-> [op |-> IF i % 2 = 1 THEN "start" ELSE "return",
                      phase |-> Steps[(i + 1) \div 2]]]

EventsOfType(type) == {p \in 1..Len(events) : events[p].type = type}

AgentEventsOf(type, id) == {p \in EventsOfType(type) : events[p].payload.id = id}

IsErrorPayload(result) == "error" \in DOMAIN result

\* C1: the phase runs start and return in the order Phase1, Phase2, Phase3,
\* Phase4, Phase5, Final: a run starts only after the run before it returned,
\* and when run returns each of the six has started and returned exactly once.
C1_FixedPhaseOrder ==
    /\ Len(calls) <= 12
    /\ calls = SubSeq(ExpectedCalls, 1, Len(calls))
    /\ Finished => calls = ExpectedCalls

C1_Witness ==
    /\ pc = "returned"
    /\ calls = ExpectedCalls
    /\ \E i \in 1..Len(analysis_tasks) : analysis_tasks[i].suspended

\* C2: whatever phases return an error payload, run never raises, every phase
\* still runs, and run returns a PipelineResult holding phase1, phase2, phase3,
\* phase4, consolidated_report, final_analysis and metrics.
C2_CompleteResultBundle ==
    /\ pc # "raised"
    /\ \A i \in 1..Len(calls) : calls[i].op # "raise"
    /\ Finished =>
          /\ DOMAIN pipeline_result =
                {"phase1", "phase2", "phase3", "phase4", "consolidated_report",
                 "final_analysis", "metrics"}
          /\ \A s \in PhaseSteps :
                /\ \E i \in 1..Len(calls) : calls[i] = [op |-> "start", phase |-> s]
                /\ \E i \in 1..Len(calls) : calls[i] = [op |-> "return", phase |-> s]
          /\ \A k \in DOMAIN pipeline_result : pipeline_result[k] # None

C2_Witness ==
    /\ pc = "returned"
    /\ \A k \in DOMAIN pipeline_result \ {"metrics"} : IsErrorPayload(pipeline_result[k])

\* C4 (as claimed): once Phase3Analysis.run has returned, with findings or with
\* an error, every agent task it started has finished.
C4_JoinedBeforeReturn ==
    phase3_results # None =>
        \A i \in 1..Len(analysis_tasks) : analysis_tasks[i].state \in {"done", "failed"}

\* C5 (as claimed): when an agent's analyze raised, every other agent that was
\* started runs to its own agent_completed or agent_failed event; none is cancelled.
C5_SiblingsRunToCompletion ==
    (pc = "closed" /\ \E i \in 1..Len(analysis_tasks) : analysis_tasks[i].state = "failed")
        => \A j \in 1..Len(analysis_tasks) :
              /\ analysis_tasks[j].state \in {"done", "failed"}
              /\ AgentEventsOf("agent_completed", analysis_tasks[j].agent.id)
                   \cup AgentEventsOf("agent_failed", analysis_tasks[j].agent.id) # {}

AllSuspend ==
    \A i \in 1..Len(analysis_tasks) :
        analysis_tasks[i].state = "ready" \/ analysis_tasks[i].suspended

\* C6: with two or more agents that have files and whose analyze calls all
\* suspend before they complete, every agent_started event precedes every
\* agent_completed event, and once all calls completed each agent id has
\* exactly one agent_started and exactly one agent_completed event.
C6_StartedBeforeCompleted ==
    (Len(analysis_tasks) >= 2 /\ AllSuspend) =>
        /\ \A p \in EventsOfType("agent_started"), q \in EventsOfType("agent_completed") : p < q
        /\ \A i \in 1..Len(analysis_tasks) :
              /\ Cardinality(AgentEventsOf("agent_started", analysis_tasks[i].agent.id)) <= 1
              /\ Cardinality(AgentEventsOf("agent_completed", analysis_tasks[i].agent.id)) <= 1
        /\ (\A i \in 1..Len(analysis_tasks) : analysis_tasks[i].state = "done") =>
              \A i \in 1..Len(analysis_tasks) :
                 /\ Cardinality(AgentEventsOf("agent_started", analysis_tasks[i].agent.id)) = 1
                 /\ Cardinality(AgentEventsOf("agent_completed", analysis_tasks[i].agent.id)) = 1

C6_Witness ==
    /\ Len(analysis_tasks) >= 2
    /\ \A i \in 1..Len(analysis_tasks) :
          analysis_tasks[i].suspended /\ analysis_tasks[i].state = "done"
    /\ "findings" \in DOMAIN phase3_results
    /\ Cardinality(EventsOfType("agent_completed")) = Len(analysis_tasks)

\* C7: each phase is called with the output of the phase before it, Phase 5
\* with the mapping of exactly phase1..phase4 to the four results, and the
\* PipelineResult holds the same six results.
C7_OutputsThreaded ==
    Finished =>
        /\ received["run_phase2"].phase1_results = phase1_results
        /\ received["run_phase3"].analysis_plan = phase2_results
        /\ received["run_phase4"].phase3_results = phase3_results
        /\ DOMAIN received["run_phase5"].all_results = {"phase1", "phase2", "phase3", "phase4"}
        /\ received["run_phase5"].all_results.phase1 = phase1_results
        /\ received["run_phase5"].all_results.phase2 = phase2_results
        /\ received["run_phase5"].all_results.phase3 = phase3_results
        /\ received["run_phase5"].all_results.phase4 = phase4_results
        /\ received["run_final"].consolidated_report = consolidated_report
        /\ pipeline_result.phase1 = phase1_results
        /\ pipeline_result.phase2 = phase2_results
        /\ pipeline_result.phase3 = phase3_results
        /\ pipeline_result.phase4 = phase4_results
        /\ pipeline_result.consolidated_report = consolidated_report
        /\ pipeline_result.final_analysis = final_analysis

C7_Witness ==
    /\ pc = "returned"
    /\ "agents" \in DOMAIN phase2_results
    /\ "findings" \in DOMAIN phase3_results
    /\ phase3_results.findings # << >>
    /\ received["run_phase5"].all_results.phase3 = phase3_results

\* The agent list Phase2Analysis.run obtained: the primary parser's when it is
\* not empty, else the fallback extractor's, else none.
ObtainedAgents ==
    IF parser_log.primary.kind # "return" THEN << >>
    ELSE IF parser_log.primary.value # << >> THEN parser_log.primary.value
    ELSE IF parser_log.fallback.kind = "return" THEN parser_log.fallback.value
    ELSE << >>

\* C8: when Phase2Analysis.run obtains a non-empty agent list, from the primary
\* parser or from the fallback extractor, it publishes exactly one agent_plan
\* event, whose payload lists one summary (id, name, description, files) per
\* agent in the order of the `agents` value the run returns.
C8_OneAgentPlanEvent ==
    ObtainedAgents # << >> =>
        /\ Cardinality(EventsOfType("agent_plan")) = 1
        /\ "agents" \in DOMAIN phase2_results
        /\ phase2_results.agents = ObtainedAgents
        /\ LET listed == events[CHOOSE p \in EventsOfType("agent_plan") : TRUE].payload.agents
               agents == phase2_results.agents
           IN /\ Len(listed) = Len(agents)
              /\ \A i \in 1..Len(agents) :
                    /\ listed[i].name = agents[i].name
                    /\ listed[i].description = agents[i].description
                    /\ listed[i].files = agents[i].file_assignments
                    /\ listed[i].id = IF "id" \in DOMAIN agents[i] THEN agents[i].id
                                      ELSE AgentIds[i]

C8_Witness ==
    /\ parser_log.primary.kind = "return"
    /\ parser_log.primary.value = << >>
    /\ parser_log.fallback.kind = "return"
    /\ Len(parser_log.fallback.value) = 2
    /\ Cardinality(EventsOfType("agent_plan")) = 1
    /\ Len(phase2_results.agents) = 2

ArchitectFailed ==
    /\ parser_log.planned.kind = "return"
    /\ "error" \in DOMAIN parser_log.planned.value
    /\ parser_log.planned.value.error # ""

\* C9: when create_analysis_plan returns a result with a non-empty error,
\* Phase2Analysis.run returns that result as it is: no parser is called, no
\* agent_plan event is published and the result gets no `agents` key.
C9_ErrorReturnsImmediately ==
    ArchitectFailed =>
        /\ phase2_results = parser_log.planned.value
        /\ parser_log.primary.kind = "not called"
        /\ parser_log.fallback.kind = "not called"
        /\ EventsOfType("agent_plan") = {}
        /\ "agents" \notin DOMAIN phase2_results

C9_Witness ==
    /\ ArchitectFailed
    /\ phase2_results = [error |-> "dispatch failed"]
    /\ pc = "run_phase3"

NoAgentsFound ==
    /\ parser_log.primary.kind = "return"
    /\ parser_log.primary.value = << >>
    /\ \/ parser_log.fallback.kind = "raise"
       \/ parser_log.fallback.kind = "return" /\ parser_log.fallback.value = << >>

Phase2Raised == parser_log.planned.kind = "raise" \/ parser_log.primary.kind = "raise"

\* An exception was raised inside Phase3Analysis.run: by the registration
\* loop, or by an agent task, out of gather.
Phase3Raised ==
    \/ \E i \in 1..Len(analysis_tasks) : analysis_tasks[i].state = "failed"
    \/ /\ received["run_phase3"] # None
       /\ Len(architects) < Len(AgentDefinitions(received["run_phase3"].analysis_plan,
                                                 received["run_phase3"].tree))

\* C11 (as claimed): an exception raised inside Phase2Analysis.run or
\* Phase3Analysis.run never reaches the orchestrator; the phase returns a
\* mapping that carries both the phase label and the error text.
C11_ExceptionsLabelled ==
    /\ pc # "raised"
    /\ (Phase2Raised /\ phase2_results # None) =>
          {"phase", "error"} \subseteq DOMAIN phase2_results
    /\ (Phase3Raised /\ phase3_results # None) =>
          {"phase", "error"} \subseteq DOMAIN phase3_results

\* The name of a tree entry: the words behind the connector, joined by spaces.
EntryName(line) == Join(<<" ">>, Tail(line))

\* The entry is a file with one of the source extensions: its name ends with it.
HasSourceExtension(name) ==
    \E ext \in SourceExts :
        /\ Len(name) > Len(ext)
        /\ SubSeq(name, Len(name) - Len(ext) + 1, Len(name)) = ext

RECURSIVE SourceFiles(_)
SourceFiles(lines) ==
    IF lines = << >> THEN << >>
    ELSE IF HasSourceExtension(EntryName(Head(lines)))
    THEN <<EntryName(Head(lines))>> \o SourceFiles(Tail(lines))
    ELSE SourceFiles(Tail(lines))

\* Phase 3 ran on a Phase 2 output without agents.
NoAgentsPlanned ==
    /\ received["run_phase3"] # None
    /\ \/ "agents" \notin DOMAIN received["run_phase3"].analysis_plan
       \/ received["run_phase3"].analysis_plan.agents = << >>

\* C12 (as claimed): on a Phase 2 output without agents, Phase 3 uses exactly
\* the three fallback agents agent_1, agent_2, agent_3 and assigns each of them
\* exactly the tree entries that are files with a source extension, in tree order.
C12_FallbackAgentsGetSourceFiles ==
    NoAgentsPlanned =>
        /\ Len(architects) = 3
        /\ \A i \in 1..3 :
              /\ architects[i].id = AgentIds[i]
              /\ architects[i].name = FallbackAgents[i].name
              /\ architects[i].file_assignments = SourceFiles(received["run_phase3"].tree)

\* ------------------------------------------------- request builders

\* The members of the ReasoningMode enumeration.
ReasoningModes ==
    {"DISABLED", "ENABLED", "MINIMAL", "LOW", "MEDIUM", "HIGH", "TEMPERATURE"}

\* ReasoningMode.<member>.value
ReasoningValue(mode) ==
    CASE mode = "DISABLED" -> "disabled"
      [] mode = "ENABLED" -> "enabled"
      [] mode = "MINIMAL" -> "minimal"
      [] mode = "LOW" -> "low"
      [] mode = "MEDIUM" -> "medium"
      [] mode = "HIGH" -> "high"
      [] mode = "TEMPERATURE" -> "temperature"

OpenAIModels == {"o3", "O4-MINI", "gpt-4.1", "gpt-5"}

XaiModels ==
    {"grok-code-fast-1", "Grok-4-Fast-Reasoning", "grok-4-fast-non-reasoning",
     "grok-4-0709", "grok-3"}

\* str.lower() on the model names above.
Lower(model_name) ==
    CASE model_name = "O4-MINI" -> "o4-mini"
      [] model_name = "Grok-4-Fast-Reasoning" -> "grok-4-fast-reasoning"
      [] OTHER -> model_name

\* Temperatures, in hundredths.
Temperatures == {Nothing, Some(0), Some(42)}

ToolArguments == {Nothing, Some(<< >>), Some(<<"search">>)}

TextVerbosities == {Nothing, Some(""), Some("low")}

\* The keyword arguments of the OpenAI prepare_request.
OpenAIRequests ==
    [provider : {"OPENAI"}, model_name : OpenAIModels, content : {"prompt"},
     reasoning : ReasoningModes, temperature : Temperatures, tools : ToolArguments,
     text_verbosity : TextVerbosities, use_responses_api : BOOLEAN]

\* xAI resolve_model_defaults: the table of _MODEL_DEFAULTS and _FALLBACK_DEFAULTS.
ResolveModelDefaults(model_name) ==
    LET normalized == Lower(model_name)
    IN CASE normalized \in {"grok-code-fast-1", "grok-4-fast-reasoning"} ->
              [default_reasoning |-> "ENABLED", tools_allowed |-> TRUE,
               reasoning_effort_supported |-> TRUE]
         [] normalized = "grok-4-fast-non-reasoning" ->
              [default_reasoning |-> "DISABLED", tools_allowed |-> TRUE,
               reasoning_effort_supported |-> FALSE]
         [] normalized = "grok-4-0709" ->
              [default_reasoning |-> "ENABLED", tools_allowed |-> TRUE,
               reasoning_effort_supported |-> FALSE]
         [] OTHER ->
              [default_reasoning |-> "DISABLED", tools_allowed |-> TRUE,
               reasoning_effort_supported |-> FALSE]

\* The keyword arguments of the xAI prepare_request.
XaiRequests ==
    {[provider |-> "XAI", model_name |-> m, content |-> "prompt", reasoning |-> r,
      defaults |-> ResolveModelDefaults(m), tools |-> t, temperature |-> temp] :
        m \in XaiModels, r \in ReasoningModes, t \in ToolArguments, temp \in Temperatures}

EffortLevels == {"MINIMAL", "LOW", "MEDIUM", "HIGH"}

\* _build_responses_reasoning_payload
BuildResponsesReasoningPayload(reasoning) ==
    IF reasoning \in EffortLevels THEN Some([effort |-> ReasoningValue(reasoning)])
    ELSE IF reasoning = "ENABLED" THEN Some([effort |-> ReasoningValue("MEDIUM")])
    ELSE Nothing

\* _build_text_config
BuildTextConfig(text_verbosity) ==
    IF text_verbosity = Nothing \/ text_verbosity[1] = "" THEN Nothing
    ELSE Some([verbosity |-> text_verbosity[1]])

\* _build_chat_reasoning_params
BuildChatReasoningParams(model_name, reasoning) ==
    IF Lower(model_name) \notin {"o3", "o4-mini"} THEN Nothing
    ELSE LET effort ==
                 IF reasoning = "ENABLED" THEN "high"
                 ELSE IF reasoning = "MINIMAL" THEN ReasoningValue("LOW")
                 ELSE IF reasoning \in {"LOW", "MEDIUM", "HIGH"} THEN ReasoningValue(reasoning)
                 ELSE ReasoningValue("MEDIUM")
         IN Some([reasoning_effort |-> effort])

\* _should_attach_temperature
ShouldAttachTemperature(model_name, reasoning, temperature) ==
    IF temperature = Nothing THEN FALSE
    ELSE reasoning = "TEMPERATURE" \/ Lower(model_name) = "gpt-4.1"

\* `if tools:` followed by the two assignments to the payload.
AttachTools(payload, attach, tools) ==
    IF attach /\ Truthy(tools)
    THEN With(With(payload, "tools", tools[1]), "tool_choice", "auto")
    ELSE payload

\* The OpenAI prepare_request.
PrepareRequest(r) ==
    IF r.use_responses_api
    THEN LET base == [model |-> r.model_name, input |-> r.content]
             reasoning_payload == BuildResponsesReasoningPayload(r.reasoning)
             reasoned == IF reasoning_payload # Nothing
                         THEN With(base, "reasoning", reasoning_payload[1]) ELSE base
             text_config == BuildTextConfig(r.text_verbosity)
             texted == IF text_config # Nothing
                       THEN With(reasoned, "text", text_config[1]) ELSE reasoned
         IN [api |-> "responses", payload |-> AttachTools(texted, TRUE, r.tools)]
    ELSE LET base == [model |-> r.model_name,
                      messages |-> <<[role |-> "user", content |-> r.content]>>]
             reasoning_params == BuildChatReasoningParams(r.model_name, r.reasoning)
             reasoned == IF reasoning_params # Nothing
                         THEN With(base, "reasoning_effort",
                                   reasoning_params[1].reasoning_effort)
                         ELSE base
             heated == IF ShouldAttachTemperature(r.model_name, r.reasoning, r.temperature)
                       THEN With(reasoned, "temperature", r.temperature[1]) ELSE reasoned
         IN [api |-> "chat", payload |-> AttachTools(heated, TRUE, r.tools)]

\* xAI _map_reasoning_effort
MapReasoningEffort(reasoning, defaults) ==
    IF ~defaults.reasoning_effort_supported THEN Nothing
    ELSE IF reasoning \in EffortLevels THEN Some(ReasoningValue(reasoning))
    ELSE IF reasoning = "ENABLED" THEN Some(ReasoningValue("MEDIUM"))
    ELSE Nothing

\* The xAI prepare_request.
XaiPrepareRequest(r) ==
    LET base == [model |-> r.model_name,
                 messages |-> <<[role |-> "user", content |-> r.content]>>]
        tooled == AttachTools(base, r.defaults.tools_allowed, r.tools)
        effort == MapReasoningEffort(r.reasoning, r.defaults)
        reasoned == IF effort # Nothing THEN With(tooled, "reasoning_effort", effort[1])
                    ELSE tooled
        heated == IF r.temperature # Nothing
                  THEN With(reasoned, "temperature", r.temperature[1]) ELSE reasoned
    IN [api |-> "chat", payload |-> heated]

\* A caller is about to call one of the two prepare_request functions.
InitRequest ==
    /\ request \in OpenAIRequests \cup XaiRequests
    /\ prepared = NotCalled
    /\ sdk_response = NotCalled /\ parsed = NotCalled
    /\ conversion = NotCalled /\ provider_tools = NotCalled
    /\ PipelineIdle /\ ArchitectIdle /\ RunnerIdle /\ FilesIdle

\* core.agents.openai.request_builder.prepare_request(**request)
OpenAIPrepare ==
    /\ request.provider = "OPENAI" /\ prepared = NotCalled
    /\ prepared' = Returns(PrepareRequest(request))
    /\ UNCHANGED <<request, sdk_response, parsed, conversion, provider_tools>>
    /\ UNCHANGED <<pipeline_vars, architect_vars, runner_vars, files_vars>>

\* core.agents.xai.request_builder.prepare_request(**request)
XaiPrepare ==
    /\ request.provider = "XAI" /\ prepared = NotCalled
    /\ prepared' = Returns(XaiPrepareRequest(request))
    /\ UNCHANGED <<request, sdk_response, parsed, conversion, provider_tools>>
    /\ UNCHANGED <<pipeline_vars, architect_vars, runner_vars, files_vars>>

RequestNext == OpenAIPrepare \/ XaiPrepare

SpecRequest == InitRequest /\ [][RequestNext]_vars

\* The effort parameter of a payload: reasoning_effort on the chat paths,
\* reasoning.effort on the responses path.
EffortOf(payload) ==
    IF "reasoning_effort" \in DOMAIN payload THEN Some(payload.reasoning_effort)
    ELSE IF "reasoning" \in DOMAIN payload THEN Some(payload.reasoning.effort)
    ELSE Nothing

Prepared == prepared.kind = "return"

\* C13 (as claimed): prepare_request never raises, and its payload holds at
\* most one of the effort parameter and the temperature parameter.
C13_AtMostOneOfEffortAndTemperature ==
    /\ prepared.kind # "raise"
    /\ Prepared =>
          ~(/\ EffortOf(prepared.value.payload) # Nothing
            /\ "temperature" \in DOMAIN prepared.value.payload)

\* C14 (as claimed): an emitted effort is the same-named string for MINIMAL,
\* LOW, MEDIUM and HIGH, and medium for ENABLED, on every provider and path.
C14_EffortFollowsOneMapping ==
    (/\ Prepared
     /\ request.reasoning \in EffortLevels \cup {"ENABLED"}
     /\ EffortOf(prepared.value.payload) # Nothing) =>
        EffortOf(prepared.value.payload) =
            Some(IF request.reasoning = "ENABLED" THEN "medium"
                 ELSE ReasoningValue(request.reasoning))

\* The model takes no effort parameter: an xAI model whose defaults say so, an
\* OpenAI chat model outside o3 and o4-mini.
EffortUnsupported ==
    \/ request.provider = "XAI" /\ ~request.defaults.reasoning_effort_supported
    \/ /\ request.provider = "OPENAI" /\ ~request.use_responses_api
       /\ Lower(request.model_name) \notin {"o3", "o4-mini"}

\* C15 (as claimed): with the mode DISABLED, or a model that takes no effort
\* parameter, prepare_request returns a payload without an effort parameter.
C15_NoEffortWhenDisabledOrUnsupported ==
    (prepared # NotCalled /\ (request.reasoning = "DISABLED" \/ EffortUnsupported)) =>
        /\ Prepared
        /\ EffortOf(prepared.value.payload) = Nothing

\* C16 (as claimed): with the mode TEMPERATURE, or the model gpt-4.1, and a
\* temperature set, the OpenAI payload holds that temperature and no effort
\* parameter, on the chat and on the responses path.
C16_TemperatureInsteadOfEffort ==
    (/\ Prepared /\ request.provider = "OPENAI"
     /\ request.temperature # Nothing
     /\ (request.reasoning = "TEMPERATURE" \/ Lower(request.model_name) = "gpt-4.1")) =>
        /\ "temperature" \in DOMAIN prepared.value.payload
        /\ prepared.value.payload.temperature = request.temperature[1]
        /\ EffortOf(prepared.value.payload) = Nothing

\* ------------------------------------------------- response parser

\* The largest number of content parts of an output item, of output items of
\* a response, and of tool calls of a chat message.
MaxParts == 2

MaxItems == 2

MaxCalls == 3

\* Texts are sequences of characters; the empty one also stands for a missing text.
Texts == {<< >>, <<"H">>, <<"w">>, <<"w", " ">>}

\* The content parts of an output item.
Parts ==
    {[type |-> "output_text", text |-> t] : t \in Texts}
    \cup {[type |-> "function_call", id |-> Nothing, call_id |-> Some("call_1"),
           name |-> "search", arguments |-> "{}"],
          [type |-> "custom_tool_call", id |-> Some("ctc_1"), call_id |-> Nothing,
           name |-> "shell", input |-> "ls"],
          [type |-> "refusal"]}

Contents == UNION {[1..n -> Parts] : n \in 0..MaxParts}

\* Output items: messages, and a reasoning item that is no message.
Items ==
    {[type |-> "message", content |-> c] : c \in Contents}
    \cup {[type |-> "reasoning", content |-> <<[type |-> "output_text", text |-> <<"H">>]>>]}

\* The structured output-item responses, as mappings: the output items and the
\* aggregate output_text field, which is empty when the provider sent none.
OutputResponses ==
    [output : UNION {[1..n -> Items] : n \in 0..MaxItems},
     output_text : {<< >>, <<"A">>}]

\* The tool calls of a flat chat message.
Calls ==
    {[id |-> Some("call_1"), type |-> "function",
      function |-> [name |-> "search", arguments |-> "{}"]],
     [id |-> Some("call_2"), type |-> "function",
      function |-> [name |-> "fetch", arguments |-> "{url}"]],
     [id |-> Some("call_3"), type |-> "custom"]}

\* The flat chat responses: choices[0].message with its content and tool_calls.
ChatResponses ==
    {[choices |-> << >>]}
    \cup {[choices |-> <<[message |-> [content |-> c, tool_calls |-> tc]]>>] :
             c \in {<< >>, <<"H">>},
             tc \in {Nothing} \cup {Some(l) : l \in UNION {[1..n -> Calls] : n \in 0..MaxCalls}}}

Whitespace == {" ", "\n", "\t"}

RECURSIVE LStrip(_)
LStrip(text) ==
    IF text # << >> /\ Head(text) \in Whitespace THEN LStrip(Tail(text)) ELSE text

RECURSIVE RStrip(_)
RStrip(text) ==
    IF text # << >> /\ text[Len(text)] \in Whitespace
    THEN RStrip(SubSeq(text, 1, Len(text) - 1)) ELSE text

\* str.strip()
Strip(text) == RStrip(LStrip(text))

\* _normalize_tool_call
NormalizeToolCall(part) ==
    LET call_id == IF part.id # Nothing THEN part.id ELSE part.call_id
    IN IF part.type = "function_call"
       THEN [id |-> call_id, type |-> "function",
             function |-> [name |-> part.name, arguments |-> part.arguments]]
       ELSE [id |-> call_id, type |-> "custom", name |-> part.name, input |-> part.input]

RECURSIVE PartSegments(_)
\* The inner loop of _parse_responses_output: the texts it appends.
PartSegments(content) ==
    IF content = << >> THEN << >>
    ELSE LET part == Head(content)
         IN (IF part.type = "output_text" /\ part.text # << >> THEN <<part.text>> ELSE << >>)
            \o PartSegments(Tail(content))

RECURSIVE PartToolCalls(_)
\* The inner loop of _parse_responses_output: the tool calls it appends.
PartToolCalls(content) ==
    IF content = << >> THEN << >>
    ELSE LET part == Head(content)
         IN (IF part.type \in {"function_call", "custom_tool_call"}
             THEN <<NormalizeToolCall(part)>> ELSE << >>)
            \o PartToolCalls(Tail(content))

RECURSIVE TextSegments(_)
\* The outer loop: items that are no message are skipped.
TextSegments(output_items) ==
    IF output_items = << >> THEN << >>
    ELSE (IF Head(output_items).type # "message" THEN << >>
          ELSE PartSegments(Head(output_items).content))
         \o TextSegments(Tail(output_items))

RECURSIVE ToolCalls(_)
ToolCalls(output_items) ==
    IF output_items = << >> THEN << >>
    ELSE (IF Head(output_items).type # "message" THEN << >>
          ELSE PartToolCalls(Head(output_items).content))
         \o ToolCalls(Tail(output_items))

SegmentsLastFirst(response_dict) ==
    LET found == TextSegments(Get(response_dict, "output", << >>))
    IN [i \in 1..Len(found) |-> found[Len(found) + 1 - i]]

\* text_segments once the loops are over
Segments(response_dict) == TextSegments(Get(response_dict, "output", << >>))

\* _parse_responses_output
ParseResponsesOutput(response_dict) ==
    LET found == Segments(response_dict)
        aggregated == Get(response_dict, "output_text", << >>)
        text_segments == IF found = << >> /\ aggregated # << >>
                         THEN <<aggregated>> ELSE found
        tool_calls == ToolCalls(Get(response_dict, "output", << >>))
    IN Returns([findings |-> IF text_segments # << >>
                             THEN Some(Strip(Join(<<"\n">>, text_segments)))
                             ELSE Nothing,
                tool_calls |-> IF tool_calls # << >> THEN Some(tool_calls) ELSE Nothing])

IsSearchCall(tool_call) ==
    tool_call.type = "function" /\ tool_call.function.name = "search"

\* The condition of the list comprehension of _parse_chat_output.
IsFunctionCall(tool_call) == tool_call.type = "function"

\* _parse_chat_output: response.choices raises AttributeError on a response
\* that has none, and choices[0] IndexError on one whose choices are empty.
ParseChatOutput(chat_response) ==
    IF "choices" \notin DOMAIN chat_response THEN Raises
    ELSE IF chat_response.choices = << >> THEN Raises
    ELSE LET message == chat_response.choices[1].message
             kept == IF Truthy(message.tool_calls)
                     THEN SelectSeq(message.tool_calls[1], IsFunctionCall) ELSE << >>
             tool_calls == [i \in 1..Len(kept) |->
                               [id |-> kept[i].id, type |-> kept[i].type,
                                function |-> [name |-> kept[i].function.name,
                                              arguments |-> kept[i].function.arguments]]]
         IN Returns([findings |-> IF message.content # << >> THEN Some(message.content)
                                  ELSE Nothing,
                     tool_calls |-> IF tool_calls # << >> THEN Some(tool_calls) ELSE Nothing])

\* parse_response: the route by the API the request was executed on.
ParseResponseOf(sdk_result, api_type) ==
    IF api_type = "responses" THEN ParseResponsesOutput(sdk_result)
    ELSE ParseChatOutput(sdk_result)

\* A caller is about to hand an SDK response to parse_response.
InitParser ==
    /\ \/ \E r \in OutputResponses : sdk_response = [api |-> "responses", response |-> r]
       \/ \E r \in ChatResponses : sdk_response = [api |-> "chat", response |-> r]
    /\ parsed = NotCalled
    /\ request = NotCalled /\ prepared = NotCalled
    /\ conversion = NotCalled /\ provider_tools = NotCalled
    /\ PipelineIdle /\ ArchitectIdle /\ RunnerIdle /\ FilesIdle

\* parse_response(response, api_type)
ParseResponse ==
    /\ sdk_response # NotCalled /\ parsed = NotCalled
    /\ parsed' = ParseResponseOf(sdk_response.response, sdk_response.api)
    /\ UNCHANGED <<request, prepared, sdk_response, conversion, provider_tools>>
    /\ UNCHANGED <<pipeline_vars, architect_vars, runner_vars, files_vars>>

SpecParser == InitParser /\ [][ParseResponse]_vars

\* parse_response returned on a structured output-item response.
ParsedOutputItems == parsed.kind = "return" /\ sdk_response.api = "responses"

RECURSIVE PartsOf(_, _)
\* The content parts of the output items, in item order and part order; of
\* the message items only, or of every item.
PartsOf(output_items, messages_only) ==
    IF output_items = << >> THEN << >>
    ELSE (IF messages_only /\ Head(output_items).type # "message" THEN << >>
          ELSE Head(output_items).content)
         \o PartsOf(Tail(output_items), messages_only)

IsTextPart(part) == part.type = "output_text"

IsFilledTextPart(part) == part.type = "output_text" /\ part.text # << >>

TextsOf(parts) == [i \in 1..Len(parts) |-> parts[i].text]

\* C17 (as claimed): the findings of a structured response are the texts of
\* all its output_text parts, in item and part order, joined with a newline.
C17_AllTextPartsJoined ==
    ParsedOutputItems =>
        LET texts == TextsOf(SelectSeq(PartsOf(sdk_response.response.output, FALSE),
                                       IsTextPart))
        IN texts # << >> => parsed.value.findings = Some(Join(<<"\n">>, texts))

\* C17 (amended): the findings are the non-empty texts of the output_text
\* parts of the message items, in item and part order, joined with a newline
\* and stripped of leading and trailing whitespace; without such a text they
\* are the aggregate output_text, stripped, or None when there is none.
C17_FilledTextsJoinedAndStripped ==
    ParsedOutputItems =>
        LET texts == TextsOf(SelectSeq(PartsOf(sdk_response.response.output, TRUE),
                                       IsFilledTextPart))
            aggregate == sdk_response.response.output_text
        IN parsed.value.findings =
               IF texts # << >> THEN Some(Strip(Join(<<"\n">>, texts)))
               ELSE IF aggregate # << >> THEN Some(Strip(aggregate))
               ELSE Nothing

C17_Witness ==
    /\ ParsedOutputItems
    /\ sdk_response.response.output =
          <<[type |-> "message", content |-> <<[type |-> "output_text", text |-> <<"H">>]>>],
            [type |-> "message", content |-> <<[type |-> "output_text", text |-> <<"w">>]>>]>>
    /\ parsed.value.findings = Some(<<"H", "\n", "w">>)

\* parse_response returned on a flat chat response.
ParsedChat == parsed.kind = "return" /\ sdk_response.api = "chat"

\* The tool calls of the chat message that are of type function, in order.
FunctionCallsOf(message) ==
    IF message.tool_calls = Nothing THEN << >>
    ELSE LET OfTypeFunction(c) == c.type = "function"
         IN SelectSeq(message.tool_calls[1], OfTypeFunction)

\* C18: on a flat chat response, tool_calls holds one record per tool call of
\* type function, in the order of the response, with the id, name and raw
\* arguments of that call; calls of any other type are dropped, and tool_calls
\* is None when no record remains.
C18_FunctionCallsNormalized ==
    ParsedChat =>
        LET wanted == FunctionCallsOf(sdk_response.response.choices[1].message)
            records == parsed.value.tool_calls
        IN IF wanted = << >> THEN records = Nothing
           ELSE /\ records # Nothing
                /\ Len(records[1]) = Len(wanted)
                /\ \A i \in 1..Len(wanted) :
                      /\ DOMAIN records[1][i] = {"id", "type", "function"}
                      /\ records[1][i].type = "function"
                      /\ records[1][i].id = wanted[i].id
                      /\ records[1][i].function.name = wanted[i].function.name
                      /\ records[1][i].function.arguments = wanted[i].function.arguments

C18_Witness ==
    /\ ParsedChat
    /\ sdk_response.response.choices[1].message.tool_calls # Nothing
    /\ Len(sdk_response.response.choices[1].message.tool_calls[1]) = 3
    /\ sdk_response.response.choices[1].message.tool_calls[1][2].type = "custom"
    /\ parsed.value.tool_calls # Nothing
    /\ Len(parsed.value.tool_calls[1]) = 2
    /\ parsed.value.tool_calls[1][1].function.name = "fetch"
    /\ parsed.value.tool_calls[1][2].function.name = "search"

\* ------------------------------------------------------ ToolManager

\* The largest number of tools of a tool list.
MaxTools == 2

ModelProviders == {"OPENAI", "ANTHROPIC", "GEMINI", "DEEPSEEK", "XAI"}

\* The parameters schema of a canonical tool, with and without a required list.
ParameterSchemas ==
    {[type |-> "object", properties |-> [query |-> "string"], required |-> <<"query">>],
     [type |-> "object", properties |-> [query |-> "string"]]}

\* Canonical tools, with and without a description.
CanonicalTools ==
    {[type |-> "function",
      function |-> [name |-> n, description |-> "Search the web", parameters |-> p]] :
        n \in {"search", "fetch"}, p \in ParameterSchemas}
    \cup {[type |-> "function", function |-> [name |-> n, parameters |-> p]] :
             n \in {"search", "fetch"}, p \in ParameterSchemas}

ToolLists == UNION {[1..n -> CanonicalTools] : n \in 0..MaxTools}

\* The arguments of get_provider_tools, and whether google.genai can be imported.
Conversions ==
    [tools : {Nothing} \cup {Some(l) : l \in ToolLists}, provider : ModelProviders,
     genai_available : BOOLEAN]

\* The element of the ANTHROPIC list comprehension: the subscripts need no
\* key but description (a canonical tool has function, name, parameters and
\* properties).
AnthropicTool(tool) ==
    [name |-> tool.function.name,
     description |-> tool.function.description,
     input_schema |-> [type |-> "object",
                       properties |-> tool.function.parameters.properties,
                       required |-> Get(tool.function.parameters, "required", << >>)]]

\* The keys the subscripts of the ANTHROPIC branch look up are there.
AnthropicConvertible(tool) == "description" \in DOMAIN tool.function

\* The element the GEMINI branch builds: a Tool with one FunctionDeclaration
\* when the SDK is there, else the plain mapping.
GeminiTool(tool, genai_available) ==
    LET fn == tool.function
    IN IF genai_available
       THEN [function_declarations |->
                <<[name |-> fn.name, description |-> Get(fn, "description", ""),
                   parameters_json_schema |-> fn.parameters]>>,
             sdk_type |-> "Tool"]
       ELSE [function_declarations |->
                <<[name |-> fn.name, description |-> Get(fn, "description", ""),
                   parameters |-> fn.parameters]>>]

\* ToolManager.get_provider_tools
GetProviderTools(tools, provider, genai_available) ==
    IF ~Truthy(tools) THEN Returns(<< >>)
    ELSE LET normalized == tools[1]
         IN CASE provider = "OPENAI" -> Returns(normalized)
              [] provider = "ANTHROPIC" ->
                    IF \A i \in 1..Len(normalized) : AnthropicConvertible(normalized[i])
                    THEN Returns([i \in 1..Len(normalized) |-> AnthropicTool(normalized[i])])
                    ELSE Raises
              [] provider = "GEMINI" ->
                    Returns([i \in 1..Len(normalized) |->
                                GeminiTool(normalized[i], genai_available)])
              [] provider \in {"DEEPSEEK", "XAI"} -> Returns(normalized)
              [] OTHER -> Returns(<< >>)

\* A caller is about to convert a tool list for a provider.
InitTools ==
    /\ conversion \in Conversions
    /\ provider_tools = NotCalled
    /\ request = NotCalled /\ prepared = NotCalled
    /\ sdk_response = NotCalled /\ parsed = NotCalled
    /\ PipelineIdle /\ ArchitectIdle /\ RunnerIdle /\ FilesIdle

\* ToolManager.get_provider_tools(tools, provider)
ConvertTools ==
    /\ conversion # NotCalled /\ provider_tools = NotCalled
    /\ provider_tools' = GetProviderTools(conversion.tools, conversion.provider,
                                          conversion.genai_available)
    /\ UNCHANGED <<request, prepared, sdk_response, parsed, conversion>>
    /\ UNCHANGED <<pipeline_vars, architect_vars, runner_vars, files_vars>>

SpecTools == InitTools /\ [][ConvertTools]_vars

\* The tool list handed to get_provider_tools, empty for None.
GivenTools == IF conversion.tools = Nothing THEN << >> ELSE conversion.tools[1]

\* C19 (as claimed): for OPENAI, DEEPSEEK and XAI the output is the input tool
\* list; for ANTHROPIC every canonical tool, with or without a description or
\* a required list, converts without failing to name, description and
\* input_schema, from which its name, description, properties and required
\* list are read back.
C19_ConversionLossless ==
    provider_tools # NotCalled =>
        /\ conversion.provider \in {"OPENAI", "DEEPSEEK", "XAI"} =>
              provider_tools = Returns(GivenTools)
        /\ conversion.provider = "ANTHROPIC" =>
              /\ provider_tools.kind = "return"
              /\ Len(provider_tools.value) = Len(GivenTools)
              /\ \A i \in 1..Len(GivenTools) :
                    LET fn == GivenTools[i].function
                        out == provider_tools.value[i]
                    IN /\ DOMAIN out = {"name", "description", "input_schema"}
                       /\ out.name = fn.name
                       /\ "description" \in DOMAIN fn => out.description = fn.description
                       /\ out.input_schema.properties = fn.parameters.properties
                       /\ out.input_schema.required =
                              Get(fn.parameters, "required", << >>)

\* ----------------------------------------------- OpenAIArchitect.analyze

ToolsConfigs ==
    {Nothing,
     Some([enabled |-> TRUE, tools |-> Some(<<"fetch">>)]),
     Some([enabled |-> TRUE, tools |-> Nothing]),
     Some([enabled |-> FALSE, tools |-> Some(<<"fetch">>)])}

\* The architects __init__ can build: template_ok is whether str.format accepts
\* the prompt template.
Architects ==
    {[name |-> n, tools_config |-> c, use_responses_api |-> u, template_ok |-> t,
      model_name |-> m.model_name, reasoning |-> m.reasoning,
      temperature |-> m.temperature, text_verbosity |-> Nothing] :
        n \in {Nothing, Some("Alpha")}, c \in ToolsConfigs, u \in BOOLEAN,
        t \in BOOLEAN,
        m \in {[model_name |-> "o3", reasoning |-> "HIGH", temperature |-> Nothing],
               [model_name |-> "gpt-4.1", reasoning |-> "TEMPERATURE",
                temperature |-> Some(42)]}}

\* The context argument: a mapping with or without a formatted_prompt, or a
\* value that is no mapping at all.
Contexts ==
    {[mapping |-> TRUE, formatted_prompt |-> Some("prompt")],
     [mapping |-> TRUE, formatted_prompt |-> Nothing],
     [mapping |-> FALSE, formatted_prompt |-> Nothing]}

\* The responses the chat completions endpoint can return: one without a
\* choice, a text, a function tool call, and an empty message.
SdkChatResponses ==
    {[choices |-> << >>],
     [choices |-> <<[message |-> [content |-> <<"H">>, tool_calls |-> Nothing]]>>],
     [choices |-> <<[message |-> [content |-> << >>,
                                  tool_calls |-> Some(<<[id |-> Some("call_1"),
                                                         type |-> "function",
                                                         function |-> [name |-> "search",
                                                                       arguments |-> "{}"]]>>)]]>>],
     [choices |-> <<[message |-> [content |-> << >>, tool_calls |-> Nothing]]>>]}

\* The responses the responses endpoint can return: a text, nothing at all,
\* a blank text, and a function call.
SdkOutputResponses ==
    {[output |-> <<[type |-> "message",
                    content |-> <<[type |-> "output_text", text |-> <<"H">>]>>]>>,
      output_text |-> << >>],
     [output |-> << >>, output_text |-> << >>],
     [output |-> <<[type |-> "message",
                    content |-> <<[type |-> "output_text", text |-> <<" ">>]>>]>>,
      output_text |-> << >>],
     [output |-> <<[type |-> "message",
                    content |-> <<[type |-> "function_call", id |-> Nothing,
                                   call_id |-> Some("call_1"), name |-> "search",
                                   arguments |-> "{}"]>>]>>,
      output_text |-> << >>]}

\* execute_request: the endpoint is the one of prepared.api, and the SDK call
\* returns one of its responses or raises.
SdkOutcomes(prepared_request) ==
    {Raises}
    \cup {Returns(r) : r \in IF prepared_request.api = "responses"
                             THEN SdkOutputResponses ELSE SdkChatResponses}

\* self.name or "OpenAI Architect"
AgentName(self) == IF self.name = Nothing THEN "OpenAI Architect" ELSE self.name[1]

\* ToolManager.get_provider_tools(tool_list, ModelProvider.OPENAI)
GetProviderToolsOpenAI(tool_list) == GetProviderTools(Some(tool_list), "OPENAI", FALSE).value

\* OpenAIArchitect._prepare_request
ArchitectPrepareRequest(self, content, tools) ==
    PrepareRequest([provider |-> "OPENAI", model_name |-> self.model_name,
                    content |-> content, reasoning |-> self.reasoning,
                    temperature |-> self.temperature, tools |-> tools,
                    text_verbosity |-> self.text_verbosity,
                    use_responses_api |-> self.use_responses_api])

ResolveToolsConfigFirst(tools, tools_config) ==
    LET configured == tools_config # Nothing /\ tools_config[1].enabled
    IN IF configured /\ Truthy(tools_config[1].tools) THEN tools_config[1].tools
       ELSE IF Truthy(tools) THEN tools
       ELSE Nothing

\* OpenAIArchitect._resolve_tools
ResolveTools(tools, tools_config) ==
    LET configured == tools_config # Nothing /\ tools_config[1].enabled
    IN IF ~Truthy(tools) /\ ~configured THEN Nothing
       ELSE LET tool_list == IF Truthy(tools) THEN tools ELSE tools_config[1].tools
            IN IF ~Truthy(tool_list) THEN Nothing
               ELSE Some(GetProviderToolsOpenAI(tool_list[1]))

AnalyzeReraise(self, message) == Raises

\* The except clause of analyze.
AnalyzeOnException(self, message) ==
    Returns([agent |-> AgentName(self), error |-> message])

\* create_analysis_plan, synthesize_findings, final_analysis, consolidate_results
SimpleOps ==
    {"create_analysis_plan", "synthesize_findings", "final_analysis",
     "consolidate_results"}

\* The result_key each operation passes to _run_simple_request.
ResultKey(op) ==
    CASE op = "create_analysis_plan" -> "plan"
      [] op = "synthesize_findings" -> "analysis"
      [] op = "final_analysis" -> "analysis"
      [] op = "consolidate_results" -> "report"

\* The empty_value each operation passes, held as a text of one token.
EmptyValue(op) ==
    CASE op = "create_analysis_plan" -> <<"No plan generated">>
      [] op = "synthesize_findings" -> <<"No synthesis generated">>
      [] op = "final_analysis" -> <<"No final analysis generated">>
      [] op = "consolidate_results" -> <<"No report generated">>

\* include_phase=True
IncludePhase(op) == op = "consolidate_results"

\* The except clause of _run_simple_request.
SimpleOnException(op, message) ==
    LET failed == [error |-> message]
    IN Returns(IF IncludePhase(op) THEN With(failed, "phase", "Consolidation") ELSE failed)

\* The try body of _run_simple_request once the response is parsed.
SimpleResult(op, parsed_response) ==
    LET named == [k \in {ResultKey(op)} |->
                     IF parsed_response.findings # Nothing
                        /\ parsed_response.findings[1] # << >>
                     THEN parsed_response.findings[1] ELSE EmptyValue(op)]
        called == IF Truthy(parsed_response.tool_calls)
                  THEN With(named, "tool_calls", parsed_response.tool_calls[1])
                  ELSE named
    IN IF IncludePhase(op) THEN With(called, "phase", "Consolidation") ELSE called

\* The result mapping of analyze.
AnalyzeResult(self, parsed_response) ==
    [agent |-> AgentName(self), findings |-> parsed_response.findings,
     tool_calls |-> parsed_response.tool_calls]

\* The arguments of the four operations: the data to build the default prompt
\* from, which json.dumps accepts or not, and the optional prompt.
SimpleArguments == [serializable : BOOLEAN, prompt : {Nothing, Some("prompt")}]

\* The prompt argument of the operation is evaluated before _run_simple_request
\* is entered: consolidate_results builds its default prompt with json.dumps
\* whether or not a prompt was passed, and json.dumps raises TypeError on data
\* it cannot serialise. The prompt formatters of the other three return.
PromptOutcome(op, arguments) ==
    IF op = "consolidate_results" /\ ~arguments.serializable THEN Raises
    ELSE Returns(IF arguments.prompt # Nothing THEN arguments.prompt[1] ELSE "formatted")

ParseApiChat(prepared_request) == "chat"

\* parse_response(response, prepared.api): the API it is told.
ParseApi(prepared_request) == prepared_request.api

InitArchitect ==
    /\ architect \in Architects
    /\ call = [op |-> "none"]
    /\ frame = NoFrame
    /\ dispatched = << >>
    /\ analysis = NotCalled
    /\ PipelineIdle
    /\ AdapterIdle
    /\ RunnerIdle /\ FilesIdle

\* The locals of an operation that was just called.
NewFrame(first_step) ==
    [pc |-> first_step, content |-> Nothing, final_tools |-> Nothing,
     prepared |-> Nothing, built |-> 0, response |-> Nothing,
     parsed_with |-> "none", failed_at |-> "none"]

\* A statement inside the try of the operation raised: control goes to the
\* except clause of analyze or of _run_simple_request.
Fail(step) ==
    LET outcome == IF call.op = "analyze" THEN AnalyzeOnException(architect, step)
                   ELSE SimpleOnException(call.op, step)
    IN /\ analysis' = outcome
       /\ frame' = [frame EXCEPT !.pc = IF outcome.kind = "raise" THEN "raised"
                                        ELSE "returned",
                                 !.failed_at = step]

\* analyze(context, tools) is called.
AnalyzeCall ==
    /\ frame.pc = "idle"
    /\ \E context \in Contexts, tools \in ToolArguments :
          call' = [op |-> "analyze", context |-> context, tools |-> tools]
    /\ frame' = NewFrame("format")
    /\ UNCHANGED <<architect, dispatched, analysis, pipeline_vars, adapter_vars, runner_vars, files_vars>>

\* One of the four simple operations is called.
SimpleCall ==
    /\ frame.pc = "idle"
    /\ \E op \in SimpleOps, arguments \in SimpleArguments :
          call' = [op |-> op, arguments |-> arguments, tools |-> Nothing]
    /\ frame' = NewFrame("prompt")
    /\ UNCHANGED <<architect, dispatched, analysis, pipeline_vars, adapter_vars, runner_vars, files_vars>>

\* prompt or <default prompt>, evaluated by the operation before it calls
\* _run_simple_request: an exception here is outside every try.
PromptStep ==
    /\ frame.pc = "prompt"
    /\ LET prompt == PromptOutcome(call.op, call.arguments)
       IN IF prompt.kind = "raise"
          THEN /\ analysis' = Raises
               /\ frame' = [frame EXCEPT !.pc = "raised", !.failed_at = "prompt"]
          ELSE /\ frame' = [frame EXCEPT !.pc = "prepare", !.content = Some(prompt.value)]
               /\ UNCHANGED analysis
    /\ UNCHANGED <<architect, call, dispatched, pipeline_vars, adapter_vars, runner_vars, files_vars>>

\* content = context.get("formatted_prompt") or self.format_prompt(context)
FormatStep ==
    /\ frame.pc = "format"
    /\ IF ~call.context.mapping THEN Fail("format")
       ELSE IF call.context.formatted_prompt # Nothing
       THEN /\ frame' = [frame EXCEPT !.pc = "resolve",
                                      !.content = call.context.formatted_prompt]
            /\ UNCHANGED analysis
       ELSE IF architect.template_ok
       THEN /\ frame' = [frame EXCEPT !.pc = "resolve", !.content = Some("formatted")]
            /\ UNCHANGED analysis
       ELSE Fail("format")
    /\ UNCHANGED <<architect, call, dispatched, pipeline_vars, adapter_vars, runner_vars, files_vars>>

\* final_tools = self._resolve_tools(tools)
ResolveStep ==
    /\ frame.pc = "resolve"
    /\ \/ /\ frame' = [frame EXCEPT
                          !.pc = "prepare",
                          !.final_tools = ResolveTools(call.tools, architect.tools_config)]
          /\ UNCHANGED analysis
       \/ Fail("resolve")
    /\ UNCHANGED <<architect, call, dispatched, pipeline_vars, adapter_vars, runner_vars, files_vars>>

\* prepared = self._prepare_request(content, final_tools), without tools in
\* _run_simple_request.
PrepareStep ==
    /\ frame.pc = "prepare"
    /\ \/ /\ frame' = [frame EXCEPT
                          !.pc = IF call.op = "analyze" THEN "lookup" ELSE "dispatch",
                          !.built = frame.built + 1,
                          !.prepared =
                              Some(ArchitectPrepareRequest(architect, frame.content[1],
                                                           frame.final_tools))]
          /\ UNCHANGED analysis
       \/ Fail("prepare")
    /\ UNCHANGED <<architect, call, dispatched, pipeline_vars, adapter_vars, runner_vars, files_vars>>

\* In analyze the import and the call of get_model_config_name for the log
\* line stand between the request and its dispatch, inside the try.
LookupStep ==
    /\ frame.pc = "lookup"
    /\ \/ /\ frame' = [frame EXCEPT !.pc = "dispatch"]
          /\ UNCHANGED analysis
       \/ Fail("lookup")
    /\ UNCHANGED <<architect, call, dispatched, pipeline_vars, adapter_vars, runner_vars, files_vars>>

\* response = execute_request(prepared)
DispatchStep ==
    /\ frame.pc = "dispatch"
    /\ dispatched' = Append(dispatched, frame.prepared[1])
    /\ \E sdk \in SdkOutcomes(frame.prepared[1]) :
          IF sdk.kind = "raise" THEN Fail("dispatch")
          ELSE /\ frame' = [frame EXCEPT !.pc = "parse", !.response = Some(sdk.value)]
               /\ UNCHANGED analysis
    /\ UNCHANGED <<architect, call, pipeline_vars, adapter_vars, runner_vars, files_vars>>

\* parsed = parse_response(response, prepared.api) and the result mapping.
ParseStep ==
    /\ frame.pc = "parse"
    /\ LET api_type == ParseApi(frame.prepared[1])
           outcome == ParseResponseOf(frame.response[1], api_type)
       IN IF outcome.kind = "raise"
          THEN /\ analysis' = IF call.op = "analyze"
                              THEN AnalyzeOnException(architect, "parse")
                              ELSE SimpleOnException(call.op, "parse")
               /\ frame' = [frame EXCEPT !.pc = "returned", !.failed_at = "parse",
                                         !.parsed_with = api_type]
          ELSE /\ analysis' = Returns(IF call.op = "analyze"
                                      THEN AnalyzeResult(architect, outcome.value)
                                      ELSE SimpleResult(call.op, outcome.value))
               /\ frame' = [frame EXCEPT !.pc = "returned", !.parsed_with = api_type]
    /\ UNCHANGED <<architect, call, dispatched, pipeline_vars, adapter_vars, runner_vars, files_vars>>

ArchitectNext ==
    \/ AnalyzeCall
    \/ SimpleCall
    \/ PromptStep
    \/ FormatStep
    \/ ResolveStep
    \/ PrepareStep
    \/ LookupStep
    \/ DispatchStep
    \/ ParseStep

SpecArchitect == InitArchitect /\ [][ArchitectNext]_vars

\* C3: analyze never raises; when a statement of it fails (prompt formatting,
\* tool resolution, request preparation, dispatch, response parsing) it returns
\* a mapping with exactly the keys agent and error, and when none fails a
\* mapping with exactly agent, findings and tool_calls.
C3_AnalyzeNeverRaises ==
    call.op = "analyze" =>
        /\ analysis.kind # "raise"
        /\ frame.pc # "raised"
        /\ frame.pc = "returned" =>
              /\ analysis.kind = "return"
              /\ IF frame.failed_at # "none"
                 THEN DOMAIN analysis.value = {"agent", "error"}
                 ELSE DOMAIN analysis.value = {"agent", "findings", "tool_calls"}

C3_Witness ==
    /\ call.op = "analyze"
    /\ frame.pc = "returned"
    /\ frame.failed_at = "dispatch"
    /\ Len(dispatched) = 1
    /\ analysis = Returns([agent |-> "Alpha", error |-> "dispatch"])

\* The tools of a dispatched request, none when the payload has no tools key.
AttachedTools(prepared_request) ==
    IF "tools" \in DOMAIN prepared_request.payload THEN prepared_request.payload.tools
    ELSE << >>

\* The tools of the enabled tools_config, none when it is disabled or absent.
ConfiguredTools ==
    IF architect.tools_config # Nothing /\ architect.tools_config[1].enabled
       /\ architect.tools_config[1].tools # Nothing
    THEN architect.tools_config[1].tools[1]
    ELSE << >>

\* C20 (as claimed): the tools attached to the request of analyze are the
\* explicit argument whenever one is passed, whatever tools_config says, the
\* configured tools when none is passed and tools_config is enabled, and none
\* otherwise.
C20_ExplicitToolsTakePrecedence ==
    call.op = "analyze" /\ dispatched # << >> =>
        AttachedTools(dispatched[1]) =
            IF call.tools # Nothing THEN call.tools[1] ELSE ConfiguredTools

\* C20 (amended): the tools attached to the request of analyze are the
\* explicit argument whenever a non-empty one is passed, whatever tools_config
\* says; when the argument is left out or is the empty list they are the
\* configured tools of an enabled tools_config, and none otherwise.
C20_NonEmptyExplicitToolsTakePrecedence ==
    call.op = "analyze" /\ dispatched # << >> =>
        /\ AttachedTools(dispatched[1]) =
              IF Truthy(call.tools) THEN call.tools[1] ELSE ConfiguredTools
        /\ "tool_choice" \in DOMAIN dispatched[1].payload
              <=> AttachedTools(dispatched[1]) # << >>

C20_Witness ==
    /\ call.op = "analyze"
    /\ dispatched # << >>
    /\ call.tools = Some(<<"search">>)
    /\ ConfiguredTools = <<"fetch">>
    /\ AttachedTools(dispatched[1]) = <<"search">>

\* ------------------------------------------ offline mode and run_pipeline

MaxObtained == 2

\* What a phase module gets when it imports a factory function from the agents
\* package: the function the package bound when it was imported itself, which
\* was before any patch (offline.py imports the package at its top), or, for a
\* package that forwards the lookup, the function the factory module holds now.
PackageExport(fn) == IF reexport = "copied" THEN "real" ELSE factory_module[fn]

\* The architect a factory function returns: the stubs build DummyArchitects.
ArchitectOf(function) ==
    IF function = "stub" THEN "DummyArchitect" ELSE "ProviderArchitect"

\* patch_factory_offline has replaced the functions of the factory module.
Patched == \A fn \in FactoryFunctions : factory_module[fn] = "stub"

\* A phase unit calls the factory function its module bound at import.
Obtain(module, fn) ==
    [module |-> module, function |-> fn,
     architect |-> ArchitectOf(phase_modules[module][fn]), patched |-> Patched]

\* No interpreter has imported anything, and run_pipeline was not called.
InitRunner ==
    /\ factory_module = [fn \in FactoryFunctions |-> "real"]
    /\ phase_modules = [m \in PhaseModules |-> Unimported]
    /\ reexport \in {"copied", "forwarded"}
    /\ obtained = << >>
    /\ runner = [pc |-> "idle"]
    /\ PipelineIdle /\ ArchitectIdle /\ AdapterIdle /\ FilesIdle

\* A phase module is imported: its from-import binds the names in the module.
ImportPhaseModule ==
    /\ runner.pc = "idle"
    /\ \E m \in PhaseModules :
          /\ phase_modules[m] = Unimported
          /\ phase_modules' =
                [phase_modules EXCEPT
                    ![m] = [fn \in FactoryFunctions |->
                               IF fn \in ImportedNames(m) THEN PackageExport(fn)
                               ELSE "unbound"]]
    /\ UNCHANGED <<factory_module, reexport, obtained, runner, pipeline_vars,
                   architect_vars, adapter_vars, files_vars>>

\* patch_factory_offline(): the two attributes of the factory module are
\* rebound to the stubs.
PatchFactoryOffline ==
    /\ runner.pc = "idle"
    /\ ~Patched
    /\ factory_module' = [fn \in FactoryFunctions |-> "stub"]
    /\ UNCHANGED <<phase_modules, reexport, obtained, runner, pipeline_vars,
                   architect_vars, adapter_vars, files_vars>>

\* A phase unit obtains an architect: Phase2Analysis.__init__ and the agent
\* loop of Phase3Analysis.run call the name of their own module.
ObtainArchitect ==
    /\ runner.pc = "idle"
    /\ Len(obtained) < MaxObtained
    /\ \E m \in PhaseModules, fn \in FactoryFunctions :
          /\ phase_modules[m][fn] # "unbound"
          /\ obtained' = Append(obtained, Obtain(m, fn))
    /\ UNCHANGED <<factory_module, phase_modules, reexport, runner, pipeline_vars,
                   architect_vars, adapter_vars, files_vars>>

\* Importing pipeline_runner imports the analyzer, the pipeline factory and
\* with it every phase module.
RunnerImported == \A m \in PhaseModules : phase_modules[m] # Unimported

\* How one execution of ProjectAnalyzer.analyze can end.
AnalyzeEnds == {"returned", "RuntimeError", "Exception"}

\* run_pipeline(path, offline, context) is called, from plain code or from
\* code an event loop is running; if offline: os.environ["OFFLINE"] = "1".
RunPipelineCall ==
    /\ runner.pc = "idle"
    /\ RunnerImported
    /\ \E offline \in BOOLEAN, environ \in {"0", "1"}, loop_running \in BOOLEAN :
          runner' = [pc |-> "activate", offline |-> offline,
                     environ |-> IF offline THEN "1" ELSE environ,
                     loop_running |-> loop_running,
                     executions |-> 0, result |-> FALSE, persisted |-> 0,
                     log |-> << >>, ended |-> "running"]
    /\ UNCHANGED <<factory_module, phase_modules, reexport, obtained, pipeline_vars,
                   architect_vars, adapter_vars, files_vars>>

\* _activate_offline_mode: nothing unless OFFLINE is 1; the import of the
\* offline module or the patch may fail, which is printed and swallowed.
ActivateOfflineMode ==
    /\ runner.pc = "activate"
    /\ runner' = [runner EXCEPT !.pc = "asyncio_run"]
    /\ IF runner.environ # "1" THEN UNCHANGED factory_module
       ELSE \/ factory_module' = [fn \in FactoryFunctions |-> "stub"]
            \/ UNCHANGED factory_module
    /\ UNCHANGED <<phase_modules, reexport, obtained, pipeline_vars,
                   architect_vars, adapter_vars, files_vars>>

\* One execution of analyzer.analyze(): the pipeline is built, Phase2Analysis
\* obtains its architect, the phases run; _result is set when run returns.
Execute(ends) ==
    /\ obtained' = IF Len(obtained) < MaxObtained
                   THEN Append(obtained, Obtain("phase_2", "get_architect_for_phase"))
                   ELSE obtained
    /\ runner' = [runner EXCEPT
                     !.executions = runner.executions + 1,
                     !.log = Append(runner.log, "analyze"),
                     !.result = ends = "returned",
                     !.pc = CASE ends = "returned" -> "persist"
                              [] ends = "RuntimeError" /\ runner.pc = "asyncio_run"
                                   -> "fallback"
                              [] OTHER -> "raised",
                     !.ended = IF ends = "returned" \/ (ends = "RuntimeError"
                                                        /\ runner.pc = "asyncio_run")
                               THEN "running" ELSE ends]

\* asyncio.run(analyzer.analyze()): refused with RuntimeError, before the
\* coroutine runs, when an event loop is running in this thread; otherwise the
\* analysis is executed and its exception, if any, comes out of asyncio.run.
\* except RuntimeError leads to the second loop whichever of the two raised it.
AsyncioRun ==
    /\ runner.pc = "asyncio_run"
    /\ IF runner.loop_running
       THEN /\ runner' = [runner EXCEPT !.pc = "fallback"]
            /\ UNCHANGED obtained
       ELSE \E ends \in AnalyzeEnds : Execute(ends)
    /\ UNCHANGED <<factory_module, phase_modules, reexport, pipeline_vars,
                   architect_vars, adapter_vars, files_vars>>

\* loop = asyncio.new_event_loop(); loop.run_until_complete(analyzer.analyze())
\* and loop.close() in the finally: run_until_complete is refused as well
\* while another loop is running, and an exception of it is not caught.
FallbackLoop ==
    /\ runner.pc = "fallback"
    /\ IF runner.loop_running
       THEN /\ runner' = [runner EXCEPT !.pc = "raised", !.ended = "RuntimeError"]
            /\ UNCHANGED obtained
       ELSE \E ends \in AnalyzeEnds : Execute(ends)
    /\ UNCHANGED <<factory_module, phase_modules, reexport, pipeline_vars,
                   architect_vars, adapter_vars, files_vars>>

\* analyzer.persist_outputs(start_time) and the closing line.
PersistOutputs ==
    /\ runner.pc = "persist"
    /\ runner' = [runner EXCEPT !.pc = "done", !.ended = "returned",
                                !.persisted = runner.persisted + 1,
                                !.log = Append(runner.log, "persist_outputs")]
    /\ UNCHANGED <<factory_module, phase_modules, reexport, obtained, pipeline_vars,
                   architect_vars, adapter_vars, files_vars>>

RunnerNext ==
    \/ ImportPhaseModule
    \/ PatchFactoryOffline
    \/ ObtainArchitect
    \/ RunPipelineCall
    \/ ActivateOfflineMode
    \/ AsyncioRun
    \/ FallbackLoop
    \/ PersistOutputs

SpecRunner == InitRunner /\ [][RunnerNext]_vars

\* C22 (as claimed): once patch_factory_offline has run, every architect a
\* phase unit obtains through get_architect_for_phase or
\* get_researcher_architect is a DummyArchitect, whether its module was
\* imported before the patch or after it.
C22_PatchedFactoryGivesDummies ==
    \A i \in 1..Len(obtained) :
        obtained[i].patched => obtained[i].architect = "DummyArchitect"

\* C23 (as claimed): one call of run_pipeline executes the analysis exactly
\* once and then calls persist_outputs exactly once; the analysis is never
\* executed a second time within the call.
C23_AnalysisExecutedOnce ==
    runner.pc # "idle" =>
        /\ runner.executions <= 1
        /\ runner.pc = "done" => runner.log = <<"analyze", "persist_outputs">>

\* The simple operation that was called has ended, by return or by exception.
SimpleEnded == call.op \in SimpleOps /\ frame.pc \in {"returned", "raised"}

\* C21 (as claimed): create_analysis_plan, synthesize_findings, final_analysis
\* and consolidate_results never raise; on success the mapping they return holds
\* the field named after the operation (plan, analysis, analysis, report) bound
\* to the parsed findings, or to the placeholder when there are none; on
\* failure it holds error and not the named field.
C21_SimpleOperationsNeverRaise ==
    SimpleEnded =>
        /\ analysis.kind = "return"
        /\ IF frame.failed_at = "none"
           THEN /\ ResultKey(call.op) \in DOMAIN analysis.value
                /\ "error" \notin DOMAIN analysis.value
                /\ analysis.value[ResultKey(call.op)] # << >>
           ELSE /\ "error" \in DOMAIN analysis.value
                /\ ResultKey(call.op) \notin DOMAIN analysis.value

\* An architect operation has ended, by return or by exception.
OperationEnded == call.op # "none" /\ frame.pc \in {"returned", "raised"}

\* C24 (as claimed): every architect operation builds exactly one
\* PreparedRequest, dispatches it exactly once, and parses the response with the
\* API variant the request was prepared for.
C24_EveryOperationDispatchesOnce ==
    OperationEnded =>
        /\ frame.built = 1
        /\ Len(dispatched) = 1
        /\ frame.failed_at \in {"none", "parse"} => frame.parsed_with = dispatched[1].api

\* C24 (amended): an architect operation builds at most one PreparedRequest and
\* dispatches at most once, and what it dispatches is the request it built; an
\* operation that gets a response has built exactly one request and dispatched
\* it exactly once, and parses the response with the API variant the request
\* was prepared for; an operation whose dispatch fails ends with that one
\* dispatch; an operation that fails before its request is ready dispatches
\* nothing.
C24_AtMostOneRequestDispatchedOnce ==
    /\ frame.pc # "idle" => frame.built <= 1
    /\ Len(dispatched) <= 1
    /\ Len(dispatched) = 1 =>
          /\ frame.built = 1
          /\ dispatched[1] = frame.prepared[1]
    /\ frame.pc = "parse" => Len(dispatched) = 1
    /\ OperationEnded =>
          /\ frame.failed_at \in {"none", "parse"} =>
                /\ Len(dispatched) = 1
                /\ frame.parsed_with = dispatched[1].api
          /\ frame.failed_at = "dispatch" =>
                /\ Len(dispatched) = 1
                /\ frame.parsed_with = "none"
                /\ "error" \in DOMAIN analysis.value
          /\ frame.failed_at \in {"prompt", "format", "resolve", "prepare", "lookup"} =>
                dispatched = << >>

C24_Witness ==
    /\ call.op = "synthesize_findings"
    /\ frame.pc = "returned"
    /\ frame.failed_at = "none"
    /\ frame.built = 1
    /\ Len(dispatched) = 1
    /\ dispatched[1].api = "responses"
    /\ frame.parsed_with = "responses"
    /\ analysis = Returns([analysis |-> <<"H">>])

\* ------------------------------------ Phase3Analysis._get_file_contents

MaxFiles == 2

\* ../a.py and .a.py: a file of the parent directory and a hidden file.
ParentAPy == <<".", ".", "/">> \o APy

HiddenAPy == <<".">> \o APy

\* The paths an agent can be assigned: a.py, ./a.py, ../a.py, .a.py and b.py.
AssignedPaths ==
    {APy, <<".", "/">> \o APy, ParentAPy, HiddenAPy, <<"b", ".", "p", "y">>}

\* The places of the disk the paths can name, seen from the project directory.
Locations == {APy, ParentAPy, HiddenAPy}

\* What is at a place: nothing, a file that open() refuses, or a file.
Disks == [Locations -> {"absent", "unreadable", "file"}]

\* The content of the file at a place: each file holds its own text.
ContentAt(place) == <<"content of">> \o place

RECURSIVE Locate(_)
\* os.path.join(directory, path) as the file system resolves it: a leading ./
\* names the directory itself.
Locate(path) ==
    IF Len(path) >= 2 /\ path[1] = "." /\ path[2] = "/"
    THEN Locate(SubSeq(path, 3, Len(path)))
    ELSE path

\* os.path.exists(full_path) and os.path.isfile(full_path)
IsFile(disk, path) ==
    Locate(path) \in Locations /\ disk[Locate(path)] # "absent"

RECURSIVE LStripChars(_, _)
\* str.lstrip(chars): every leading character that is in chars is removed.
LStripChars(text, chars) ==
    IF text # << >> /\ Head(text) \in chars THEN LStripChars(Tail(text), chars)
    ELSE text

StripOnePrefix(path) ==
    IF Len(path) >= 2 /\ path[1] = "." /\ path[2] = "/"
    THEN SubSeq(path, 3, Len(path)) ELSE path

\* rel_path = file_path.lstrip('./')
RelPath(file_path) == LStripChars(file_path, {".", "/"})

\* open(full_path).read(): the content, or an exception for a file that
\* cannot be opened, which the except clause of the loop body logs.
Read(disk, path) ==
    IF disk[Locate(path)] = "file" THEN Some(ContentAt(Locate(path))) ELSE Nothing

\* One pass of the loop body: the content stored under file_path, if any.
ReadAssigned(disk, file_path) ==
    IF IsFile(disk, file_path) THEN Read(disk, file_path)
    ELSE IF IsFile(disk, RelPath(file_path)) THEN Read(disk, RelPath(file_path))
    ELSE Nothing

\* _get_file_contents(directory, assigned_files): the mapping of the assigned
\* paths that were read to what was read.
GetFileContents(disk, assigned_files) ==
    LET paths == {assigned_files[i] : i \in 1..Len(assigned_files)}
        found == {p \in paths : ReadAssigned(disk, p) # Nothing}
    IN [p \in found |-> ReadAssigned(disk, p)[1]]

\* An agent with up to MaxFiles assigned paths is about to have its files read.
InitFiles ==
    /\ \E disk \in Disks, n \in 0..MaxFiles : \E assigned \in [1..n -> AssignedPaths] :
          reading = [disk |-> disk, assigned_files |-> assigned]
    /\ file_contents = NotCalled
    /\ PipelineIdle /\ ArchitectIdle /\ AdapterIdle /\ RunnerIdle

ReadFiles ==
    /\ file_contents = NotCalled
    /\ file_contents' = Returns(GetFileContents(reading.disk, reading.assigned_files))
    /\ UNCHANGED <<reading, pipeline_vars, architect_vars, adapter_vars, runner_vars>>

SpecFiles == InitFiles /\ [][ReadFiles]_vars

\* The file a path names, as given or with one leading ./ removed: the first
\* of the two that is a file, none when neither is.
NamedFile(disk, path) ==
    IF IsFile(disk, path) THEN Some(Locate(path))
    ELSE IF IsFile(disk, StripOnePrefix(path)) THEN Some(Locate(StripOnePrefix(path)))
    ELSE Nothing

\* C26 (as claimed): reading the files of an agent always returns; every key of
\* the returned contents is an assigned path, its value is the content of the
\* file that path names, as given or with one leading ./ removed, and a path
\* that names no file in either form is left out.
C26_ContentsOfAssignedFiles ==
    file_contents # NotCalled =>
        /\ file_contents.kind = "return"
        /\ \A p \in DOMAIN file_contents.value :
              /\ \E i \in 1..Len(reading.assigned_files) : reading.assigned_files[i] = p
              /\ NamedFile(reading.disk, p) # Nothing
              /\ file_contents.value[p] = ContentAt(NamedFile(reading.disk, p)[1])

\* ------------------------------------------- Phase 3 agents and events

\* The positions of the lifecycle events of one agent after its registration.
TerminalEventsOf(id) ==
    AgentEventsOf("agent_completed", id) \cup AgentEventsOf("agent_failed", id)

\* Phase3Analysis.run has returned.
Phase3Returned == phase3_results # None

\* C25: when the analyze call of an agent raises in Phase 3, an agent_failed
\* event with the id of that agent, the error text and the time elapsed since
\* its agent_started event is published, and Phase3Analysis.run returns the
\* mapping of exactly phase, Deep Analysis, and error: no findings, so no
\* result of a sibling agent is returned.
C25_FailedAgentEventAndPhaseError ==
    \A i \in 1..Len(analysis_tasks) :
        analysis_tasks[i].state = "failed" =>
            LET id == analysis_tasks[i].agent.id
            IN /\ \E p \in AgentEventsOf("agent_failed", id),
                     q \in AgentEventsOf("agent_started", id) :
                     /\ q < p
                     /\ events[p].payload.error = "analyze raised"
                     /\ "duration" \in DOMAIN events[p].payload
                     /\ events[p].payload.duration = (p - 1) - q
                     /\ events[p].payload.files = analysis_tasks[i].agent.file_assignments
               /\ Phase3Returned =>
                     /\ DOMAIN phase3_results = {"phase", "error"}
                     /\ phase3_results.phase = "Deep Analysis"

C25_Witness ==
    /\ Len(analysis_tasks) = 2
    /\ analysis_tasks[1].state = "done"
    /\ analysis_tasks[1].result = [agent |-> AgentNames[1], findings |-> "report"]
    /\ analysis_tasks[2].state = "failed"
    /\ analysis_tasks[2].suspended
    /\ Phase3Returned
    /\ phase3_results = [phase |-> "Deep Analysis", error |-> "analyze raised"]
    /\ \E p \in AgentEventsOf("agent_failed", AgentIds[2]) : events[p].payload.duration > 0

\* C27: all agent_registered events are published, in the order of the agent
\* definitions, before the first agent_started event; the events of one agent
\* id come in the order registered, started, terminal, where the terminal event
\* is one of agent_completed and agent_failed and never more than one; no agent
\* gets a terminal event without an earlier agent_started event.
C27_AgentEventOrder ==
    /\ \A p \in EventsOfType("agent_registered"),
          q \in EventsOfType("agent_started") \cup EventsOfType("agent_completed")
                \cup EventsOfType("agent_failed") : p < q
    /\ \A p \in EventsOfType("agent_registered"), q \in EventsOfType("agent_registered") :
          p < q => \E k \in 1..Len(architects), l \in 1..Len(architects) :
                     /\ k < l
                     /\ events[p].payload.id = architects[k].id
                     /\ events[q].payload.id = architects[l].id
    /\ Cardinality(EventsOfType("agent_registered")) = Len(architects)
    /\ \A q \in EventsOfType("agent_started") :
          LET id == events[q].payload.id
          IN /\ Cardinality(AgentEventsOf("agent_registered", id)) = 1
             /\ Cardinality(AgentEventsOf("agent_started", id)) = 1
             /\ \A p \in AgentEventsOf("agent_registered", id) : p < q
    /\ \A r \in EventsOfType("agent_completed") \cup EventsOfType("agent_failed") :
          LET id == events[r].payload.id
          IN /\ Cardinality(TerminalEventsOf(id)) = 1
             /\ \E q \in AgentEventsOf("agent_started", id) : q < r

C27_Witness ==
    /\ Len(architects) = 2
    /\ Len(analysis_tasks) = 2
    /\ analysis_tasks[1].state = "failed"
    /\ analysis_tasks[2].state = "done"
    /\ Cardinality(EventsOfType("agent_registered")) = 2
    /\ Cardinality(EventsOfType("agent_started")) = 2
    /\ Cardinality(EventsOfType("agent_completed")) = 1
    /\ Cardinality(EventsOfType("agent_failed")) = 1

\* The registered agents that have files, in definition order.
AgentsWithFiles == SelectSeq(architects, LAMBDA agent : agent.file_assignments # << >>)

\* C28: an agent definition with an empty file assignment is registered (one
\* architect, one agent_registered event) but never run: no task, no
\* agent_started and no terminal event; when Phase 3 succeeds, findings holds
\* exactly one result per agent with a non-empty assignment, in definition order.
C28_AgentsWithoutFilesNotRun ==
    /\ \A k \in 1..Len(architects) :
          architects[k].file_assignments = << >> =>
              LET id == architects[k].id
              IN /\ Cardinality(AgentEventsOf("agent_registered", id)) = 1
                 /\ AgentEventsOf("agent_started", id) = {}
                 /\ TerminalEventsOf(id) = {}
                 /\ \A i \in 1..Len(analysis_tasks) : analysis_tasks[i].agent # architects[k]
    /\ (Phase3Returned /\ "findings" \in DOMAIN phase3_results) =>
          /\ Len(phase3_results.findings) = Len(AgentsWithFiles)
          /\ \A i \in 1..Len(AgentsWithFiles) :
                phase3_results.findings[i].agent = AgentsWithFiles[i].name

C28_Witness ==
    /\ Len(architects) = 2
    /\ architects[1].file_assignments = << >>
    /\ architects[2].file_assignments # << >>
    /\ Phase3Returned
    /\ phase3_results =
          [phase |-> "Deep Analysis",
           findings |-> <<[agent |-> AgentNames[2], findings |-> "report"]>>]

\* No analyze call of Phase 3 has raised.
ArchitectsNeverRaise ==
    \A i \in 1..Len(analysis_tasks) : analysis_tasks[i].analyze # "raise"

\* C29: when no architect of Phase 3 raises, a dispatch failure in one agent,
\* which analyze returns as the mapping of agent and error, leaves Phase 3 in
\* its success shape: findings holds one entry per started agent, the entry of
\* the failing agent is that mapping, and the agent gets an agent_completed
\* event and no agent_failed event.
C29_ErrorResultIsCompleted ==
    ArchitectsNeverRaise =>
        /\ EventsOfType("agent_failed") = {}
        /\ \A i \in 1..Len(analysis_tasks) : analysis_tasks[i].state # "failed"
        /\ \A i \in 1..Len(analysis_tasks) :
              (analysis_tasks[i].state = "done" /\ IsErrorPayload(analysis_tasks[i].result)) =>
                  /\ DOMAIN analysis_tasks[i].result = {"agent", "error"}
                  /\ Cardinality(AgentEventsOf("agent_completed",
                                               analysis_tasks[i].agent.id)) = 1
        /\ (Phase3Returned /\ analysis_tasks # << >>) =>
              /\ DOMAIN phase3_results = {"phase", "findings"}
              /\ Len(phase3_results.findings) = Cardinality(EventsOfType("agent_started"))
              /\ \A i \in 1..Len(analysis_tasks) :
                    phase3_results.findings[i] = analysis_tasks[i].result

C29_Witness ==
    /\ Len(analysis_tasks) = 2
    /\ Phase3Returned
    /\ phase3_results =
          [phase |-> "Deep Analysis",
           findings |-> <<[agent |-> AgentNames[1], error |-> "dispatch failed"],
                          [agent |-> AgentNames[2], findings |-> "report"]>>]
    /\ Cardinality(EventsOfType("agent_completed")) = 2
    /\ EventsOfType("agent_failed") = {}

\* The summaries of the agent_plan event of Phase 2, none when none was published.
AnnouncedAgents ==
    IF EventsOfType("agent_plan") = {} THEN << >>
    ELSE events[CHOOSE p \in EventsOfType("agent_plan") : TRUE].payload.agents

\* C30 (as claimed): every agent definition Phase 2 returns and announces in
\* its agent_plan event, also one without an id or with an id that holds no
\* underscore, is accepted by Phase 3, and the id of its Phase 3 events is the
\* id announced for it in the agent_plan summary.
C30_AnnouncedAgentsAccepted ==
    (Phase3Returned /\ AnnouncedAgents # << >>) =>
        /\ Len(architects) = Len(AnnouncedAgents)
        /\ \A k \in 1..Len(architects) :
              \E p \in AgentEventsOf("agent_registered", AnnouncedAgents[k].id) :
                  events[p].payload.name = AnnouncedAgents[k].name

====
